---- MODULE Spec2Model ----
(***************************************************************************)
(* A model of aria-eye: the accessibility-tree builder and normalizer, the *)
(* reference assigner, the memory synchronizer and the look / wait / act   *)
(* resolution engine.                                                      *)
(*                                                                         *)
(* Strings that the code inspects character by character (names, text      *)
(* runs, references) are sequences of one-character strings.  Time is      *)
(* counted in ticks of 100 ms.                                             *)
(***************************************************************************)
EXTENDS Integers, Sequences, FiniteSets, TLC

VARIABLES
    dom,          \* the document: element id -> oracle attributes and child list
    lastRef,      \* ariaSnapshot.ts: the module-level reference counter
    cache,        \* element id -> the _ariaRef triple cached on the element
    rawTree,      \* the root as it stands between the two normalization passes
    snap,         \* window._a11y._lastAriaSnapshot: [root, elements]
    aiRoot,       \* the root returned by the latest build that minted references
    infer,        \* createEye's infer flag
    store,        \* the external semantic store: sequence of [id, memory]
    nextId,       \* the store's id generator
    addSent,      \* the number of memory.add calls of the last sync
    delSent,      \* the number of memory.delete calls of the last sync
    addFailed,    \* the memory.add call of the last sync rejected
    synced,       \* a sync has completed and the document is unchanged since
    dcur,         \* diff input: current descriptions
    dprev,        \* diff input: previous store records
    dout,         \* diff output: [toAdd, toDelete] or the not-yet-run marker
    call,         \* the look / act / wait invocation that just finished
    w,            \* the waitElementByDescription invocation
    tree,         \* template matcher input: the root of a built tree
    template,     \* template matcher input: the query template
    found,        \* template matcher output: the deep search and its matches
    prompt,       \* parsePrompt input: the stored content of a record
    parsed,       \* parsePrompt output: the attribute object or the marker
    a11y,         \* window._a11y: the tree-builder global is installed
    run           \* the look / act / wait invocation in progress, step by step

vars == <<dom, lastRef, cache, rawTree, snap, aiRoot, infer, store, nextId,
          addSent, delSent, addFailed, synced, dcur, dprev, dout, call, w,
          tree, template, found, prompt, parsed, a11y, run>>

docVars  == <<dom, lastRef, cache, rawTree, snap, aiRoot>>
memVars  == <<infer, store, nextId, addSent, delSent, addFailed, synced>>
diffVars == <<dcur, dprev, dout>>
pureVars == <<tree, template, found, prompt, parsed>>
stepVars == <<a11y, run>>
sideVars == <<pureVars, stepVars>>

----------------------------------------------------------------------------
(* Bounds of the model *)

\* elements besides the document element
MaxEls == 3
\* elements that the reference specification attaches, renames and detaches
RefEls == 2
TreeEls == 3
\* ceiling of the reference counter
MaxRef == 5
\* longest list of current descriptions handed to the diff
MaxCur == 3
\* most records the store holds when the diff is taken
MaxPrev == 3
MaxId == 12
MaxInferred == 1
MaxResults == 2
MaxLag == 1
\* the searches of one wait before it times out
MaxPolls == 2

----------------------------------------------------------------------------
(* Strings *)

SeqToSet(s) == {s[i] : i \in DOMAIN s}

DigitChars == <<"0", "1", "2", "3", "4", "5", "6", "7", "8", "9">>

\* Number -> decimal string, as string concatenation "e" + n does
RECURSIVE NumToStr(_)
NumToStr(n) ==
    IF n < 10 THEN <<DigitChars[n + 1]>>
    ELSE NumToStr(n \div 10) \o <<DigitChars[(n % 10) + 1]>>

RECURSIVE Squeeze(_)
Squeeze(s) ==
    IF Len(s) <= 1 THEN s
    ELSE IF s[1] = " " /\ s[2] = " " THEN Squeeze(Tail(s))
    ELSE <<s[1]>> \o Squeeze(Tail(s))

TrimLeft(s) == IF Len(s) > 0 /\ s[1] = " " THEN Tail(s) ELSE s
TrimRight(s) ==
    IF Len(s) > 0 /\ s[Len(s)] = " " THEN SubSeq(s, 1, Len(s) - 1) ELSE s

\* stringUtils.normalizeWhiteSpace: whitespace runs become one space, ends trimmed
NormalizeWhiteSpace(s) == TrimRight(TrimLeft(Squeeze(s)))

RECURSIVE Join(_)
Join(ss) == IF ss = <<>> THEN <<>> ELSE Head(ss) \o Join(Tail(ss))

----------------------------------------------------------------------------
(* The document and the role/state oracle *)

ElIds == 0..MaxEls
RootEl == 0

NoRef == <<>>
NoCache == [role |-> "", name |-> <<>>, ref |-> NoRef]

ElItem(i) == [k |-> "el", id |-> i]
TextItem(s) == [k |-> "text", s |-> s]

\* the oracle's answers for an element that nobody has touched
BlankEl ==
    [role |-> "", roleAttr |-> "", name |-> <<>>, pointer |-> TRUE,
     boxVisible |-> TRUE, visible |-> TRUE, block |-> FALSE,
     checked |-> "undef", disabled |-> FALSE, onclick |-> FALSE,
     href |-> FALSE, owns |-> <<>>, kids |-> <<>>]

\* roleUtils.kAriaCheckedRoles
kAriaCheckedRoles ==
    {"checkbox", "menuitemcheckbox", "option", "radio", "switch",
     "menuitemradio", "treeitem"}

\* roleUtils.kAriaDisabledRoles
kAriaDisabledRoles ==
    {"application", "button", "composite", "gridcell", "group", "input",
     "link", "menuitem", "scrollbar", "separator", "tab", "checkbox",
     "columnheader", "combobox", "grid", "listbox", "menu", "menubar",
     "menuitemcheckbox", "menuitemradio", "option", "radio", "radiogroup",
     "row", "rowheader", "searchbox", "select", "slider", "spinbutton",
     "switch", "tablist", "textbox", "toolbar", "tree", "treegrid",
     "treeitem"}

\* the roles toAriaNode marks clickable by role alone
ClickableRoles ==
    {"button", "link", "menuitem", "tab", "option", "checkbox", "radio",
     "switch"}

BoolStr(b) == IF b THEN "true" ELSE "false"

----------------------------------------------------------------------------
(* Reference assigner *)

RefString(prefix, n) == prefix \o <<"e">> \o NumToStr(n)

\* ariaRef that mints without the configured prefix
ariaRefNoPrefix(bs, e, role, name, opt) ==
    IF ~opt.forAI THEN [ref |-> NoRef, bs |-> bs]
    ELSE IF bs.cache[e] = NoCache \/ bs.cache[e].role # role
                                  \/ bs.cache[e].name # name
         THEN LET r == RefString(<<>>, bs.lastRef + 1)
              IN [ref |-> r,
                  bs |-> [bs EXCEPT !.lastRef = bs.lastRef + 1,
                                    !.cache[e] = [role |-> role,
                                                  name |-> name, ref |-> r]]]
         ELSE [ref |-> bs.cache[e].ref, bs |-> bs]

\* ariaRef that mints from the counter without advancing it
ariaRefNoIncrement(bs, e, role, name, opt) ==
    IF ~opt.forAI THEN [ref |-> NoRef, bs |-> bs]
    ELSE IF bs.cache[e] = NoCache \/ bs.cache[e].role # role
                                  \/ bs.cache[e].name # name
         THEN LET r == RefString(opt.refPrefix, bs.lastRef + 1)
              IN [ref |-> r,
                  bs |-> [bs EXCEPT !.cache[e] = [role |-> role,
                                                  name |-> name, ref |-> r]]]
         ELSE [ref |-> bs.cache[e].ref, bs |-> bs]

ariaRefAlwaysMint(bs, e, role, name, opt) ==
    IF ~opt.forAI THEN [ref |-> NoRef, bs |-> bs]
    ELSE LET r == RefString(opt.refPrefix, bs.lastRef + 1)
         IN [ref |-> r,
             bs |-> [bs EXCEPT !.lastRef = bs.lastRef + 1,
                               !.cache[e] = [role |-> role, name |-> name,
                                             ref |-> r]]]

ariaRefNeverRemint(bs, e, role, name, opt) ==
    IF ~opt.forAI THEN [ref |-> NoRef, bs |-> bs]
    ELSE IF bs.cache[e] = NoCache
         THEN LET r == RefString(opt.refPrefix, bs.lastRef + 1)
              IN [ref |-> r,
                  bs |-> [bs EXCEPT !.lastRef = bs.lastRef + 1,
                                    !.cache[e] = [role |-> role,
                                                  name |-> name, ref |-> r]]]
         ELSE [ref |-> bs.cache[e].ref, bs |-> bs]

\* ariaRef: bs carries the counter and the per-element caches through a build
ariaRef(bs, e, role, name, opt) ==
    IF ~opt.forAI THEN [ref |-> NoRef, bs |-> bs]
    ELSE IF bs.cache[e] = NoCache \/ bs.cache[e].role # role
                                  \/ bs.cache[e].name # name
         THEN LET r == RefString(opt.refPrefix, bs.lastRef + 1)
              IN [ref |-> r,
                  bs |-> [bs EXCEPT !.lastRef = bs.lastRef + 1,
                                    !.cache[e] = [role |-> role,
                                                  name |-> name, ref |-> r]]]
         ELSE [ref |-> bs.cache[e].ref, bs |-> bs]

----------------------------------------------------------------------------
(* Tree builder *)

NoNode == [t |-> "none"]
TextChild(s) == [t |-> "text", s |-> s]
IsText(c) == c.t = "text"
IsNode(c) == c.t = "node"

\* the build state threaded through one generateAriaTree call
BuildState(ctr, ch) ==
    [visited |-> {}, lastRef |-> ctr, cache |-> ch, elements |-> <<>>]

MapSet(m, key, val) ==
    [x \in (DOMAIN m) \cup {key} |-> IF x = key THEN val ELSE m[x]]

\* generateAriaTree: the synthetic root
FragmentRoot(d) ==
    [t |-> "node", role |-> "fragment", name |-> <<>>, ref |-> NoRef,
     children |-> <<>>, el |-> RootEl, pointer |-> TRUE,
     boxVisible |-> d[RootEl].boxVisible,
     checked |-> "undef", disabled |-> "undef", clickable |-> "undef",
     url |-> FALSE]

\* the node toAriaNode returns for a materialized element; rr is ariaRef's answer
MakeNode(d, e, role, name, rr) ==
    [node |->
       [t |-> "node", role |-> role, name |-> name,
        ref |-> rr.ref, children |-> <<>>, el |-> e,
        pointer |-> d[e].pointer, boxVisible |-> d[e].boxVisible,
        checked |-> IF role \in kAriaCheckedRoles
                    THEN d[e].checked ELSE "undef",
        disabled |-> IF role \in kAriaDisabledRoles
                     THEN BoolStr(d[e].disabled) ELSE "undef",
        clickable |->
            BoolStr(d[e].pointer /\
                    (role \in ClickableRoles \/ d[e].onclick
                     \/ d[e].roleAttr \in {"button", "link"})),
        url |-> FALSE],
     bs |-> rr.bs]

\* the role toAriaNode works with: the oracle's, or the default
RoleOf(d, e, opt) ==
    IF d[e].role = "" THEN (IF opt.forAI THEN "generic" ELSE "")
    ELSE d[e].role

\* toAriaNode that materializes presentation and none
toAriaNodeKeepsPresentation(d, e, opt, bs) ==
    IF RoleOf(d, e, opt) = ""
    THEN [node |-> NoNode, bs |-> bs]
    ELSE MakeNode(d, e, RoleOf(d, e, opt), NormalizeWhiteSpace(d[e].name),
                  ariaRef(bs, e, RoleOf(d, e, opt),
                          NormalizeWhiteSpace(d[e].name), opt))

toAriaNode(d, e, opt, bs) ==
    IF RoleOf(d, e, opt) \in {"", "presentation", "none"}
    THEN [node |-> NoNode, bs |-> bs]
    ELSE MakeNode(d, e, RoleOf(d, e, opt), NormalizeWhiteSpace(d[e].name),
                  ariaRef(bs, e, RoleOf(d, e, opt),
                          NormalizeWhiteSpace(d[e].name), opt))

RECURSIVE Reachable(_, _)
\* the elements of the subtree of e, by child lists
Reachable(d, e) ==
    {e} \cup UNION {Reachable(d, d[e].kids[i].id) :
                      i \in {j \in DOMAIN d[e].kids : d[e].kids[j].k = "el"}}

\* getElementById answers only for elements attached to the document
OwnedItems(d, e) ==
    LET att == Reachable(d, RootEl)
        ids == d[e].owns
        keep == {i \in DOMAIN ids : ids[i] \in att}
        F[i \in 0..Len(ids)] ==
            IF i = 0 THEN <<>>
            ELSE IF i \in keep THEN Append(F[i - 1], ElItem(ids[i]))
            ELSE F[i - 1]
    IN F[Len(ids)]

Push(an, c) == [an EXCEPT !.children = Append(@, c)]

MarkVisited(bs, e) == [bs EXCEPT !.visited = @ \cup {e}]

\* snapshot.elements.set(ref, element) when the node carries a ref
Register(tn, e) ==
    IF tn.node # NoNode /\ tn.node.ref # NoRef
    THEN [tn.bs EXCEPT !.elements = MapSet(@, tn.node.ref, e)]
    ELSE tn.bs

\* the aria node processElement fills: the new child, or the parent when the
\* element is not materialized
Target(an, tn) == IF tn.node = NoNode THEN an ELSE tn.node

\* the parent after the element was processed
Adopt(an, tn, pr) ==
    IF tn.node = NoNode THEN pr ELSE [an |-> Push(an, pr.an), bs |-> pr.bs]

\* processElement up to the first child
Open(d, e, an) ==
    Push(IF d[e].block THEN Push(an, TextChild(<<" ">>)) ELSE an,
         TextChild(<<>>))

DropSoleName(an) ==
    IF Len(an.children) = 1 /\ IsText(an.children[1])
       /\ an.children[1].s = an.name
    THEN [an EXCEPT !.children = <<>>] ELSE an

SetUrl(d, e, an) ==
    IF an.role = "link" /\ d[e].href THEN [an EXCEPT !.url = TRUE] ELSE an

\* processElement after the last child
Close(d, e, r) ==
    [an |-> SetUrl(d, e,
              DropSoleName(
                IF d[e].block
                THEN Push(Push(r.an, TextChild(<<>>)), TextChild(<<" ">>))
                ELSE Push(r.an, TextChild(<<>>)))),
     bs |-> r.bs]

RECURSIVE Visit(_, _, _, _, _), VisitAll(_, _, _, _, _),
          ProcessElement(_, _, _, _, _), VisitElement(_, _, _, _, _),
          VisitRest(_, _, _, _)

\* visit(ariaNode, node): an is the aria node being filled
Visit(d, opt, an, item, bs) ==
    IF item.k = "text"
    THEN IF item.s # <<>> /\ an.role # "textbox"
         THEN [an |-> Push(an, TextChild(item.s)), bs |-> bs]
         ELSE [an |-> an, bs |-> bs]
    ELSE IF item.id \in bs.visited THEN [an |-> an, bs |-> bs]
    ELSE IF ~d[item.id].visible
         THEN [an |-> an, bs |-> MarkVisited(bs, item.id)]
    ELSE VisitElement(d, opt, an, item.id,
                      toAriaNode(d, item.id, opt, MarkVisited(bs, item.id)))

VisitElement(d, opt, an, e, tn) ==
    Adopt(an, tn, ProcessElement(d, opt, Target(an, tn), e, Register(tn, e)))

VisitRest(d, opt, items, r) == VisitAll(d, opt, r.an, items, r.bs)

VisitAll(d, opt, an, items, bs) ==
    IF items = <<>> THEN [an |-> an, bs |-> bs]
    ELSE VisitRest(d, opt, Tail(items), Visit(d, opt, an, Head(items), bs))

\* processElement that visits the owned elements before the natural children
ProcessElementOwnedFirst(d, opt, an, e, bs) ==
    Close(d, e, VisitAll(d, opt, Open(d, e, an),
                         OwnedItems(d, e) \o d[e].kids, bs))

\* processElement: the natural children, then the owned ones
ProcessElement(d, opt, an, e, bs) ==
    Close(d, e, VisitAll(d, opt, Open(d, e, an),
                         d[e].kids \o OwnedItems(d, e), bs))

----------------------------------------------------------------------------
(* Tree normalizer *)

\* receivesPointerEvents(ariaNode)
receivesPointerEvents(n) == n.boxVisible /\ n.pointer

flushChildren(buffer, out) ==
    IF buffer = <<>> THEN out
    ELSE LET text == NormalizeWhiteSpace(Join(buffer))
         IN IF text # <<>> THEN Append(out, TextChild(text)) ELSE out

\* the node with its coalesced children, unless the only one repeats its name
SetStringChildren(n, nc) ==
    IF Len(nc) = 1 /\ IsText(nc[1]) /\ nc[1].s = n.name
    THEN [n EXCEPT !.children = <<>>]
    ELSE [n EXCEPT !.children = nc]

RECURSIVE normalizeStringChildren(_), StringChildren(_, _, _)

StringChildren(children, buffer, out) ==
    IF children = <<>> THEN flushChildren(buffer, out)
    ELSE IF IsText(Head(children))
         THEN StringChildren(Tail(children),
                             Append(buffer, Head(children).s), out)
         ELSE StringChildren(Tail(children), <<>>,
                  Append(flushChildren(buffer, out),
                         normalizeStringChildren(Head(children))))

normalizeStringChildren(n) ==
    SetStringChildren(n, StringChildren(n.children, <<>>, <<>>))

removeSelfNoReach(n, result) ==
    /\ n.role = "generic"
    /\ Len(result) <= 1
    /\ \A i \in DOMAIN result : IsNode(result[i])

removeSelfAnyLength(n, result) ==
    /\ n.role = "generic"
    /\ \A i \in DOMAIN result :
           IsNode(result[i]) /\ receivesPointerEvents(result[i])

\* normalizeGenericRoles: the removeSelf test
removeSelf(n, result) ==
    /\ n.role = "generic"
    /\ Len(result) <= 1
    /\ \A i \in DOMAIN result :
           IsNode(result[i]) /\ receivesPointerEvents(result[i])

\* what normalizeChildren returns once the children are normalized
KeepOrSplice(n, result) ==
    IF removeSelf(n, result) THEN result
    ELSE <<[n EXCEPT !.children = result]>>

RECURSIVE normalizeChildren(_), GenericChildren(_)

GenericChildren(children) ==
    IF children = <<>> THEN <<>>
    ELSE (IF IsText(Head(children)) THEN <<Head(children)>>
          ELSE normalizeChildren(Head(children)))
             \o GenericChildren(Tail(children))

\* normalizeChildren: the list that replaces n among its parent's children
normalizeChildren(n) == KeepOrSplice(n, GenericChildren(n.children))

\* the call on the root discards the returned list: the root keeps its own
\* children unless it is itself kept (a fragment root always is)
RootAfter(root, result) ==
    IF removeSelf(root, result) THEN root
    ELSE [root EXCEPT !.children = result]

normalizeGenericRoles(root) == RootAfter(root, GenericChildren(root.children))

\* what generateAriaTree leaves behind: sn is the root after the first pass
Built(v, sn) ==
    [root |-> normalizeGenericRoles(sn), raw |-> sn,
     elements |-> v.bs.elements, lastRef |-> v.bs.lastRef,
     cache |-> v.bs.cache]

AfterVisit(v) == Built(v, normalizeStringChildren(v.an))

\* generateAriaTree(rootElement, options)
generateAriaTree(d, opt, ctr, ch) ==
    AfterVisit(Visit(d, opt, FragmentRoot(d), ElItem(RootEl),
                     BuildState(ctr, ch)))

----------------------------------------------------------------------------
(* Reading a tree *)

RECURSIVE NodesOf(_)
\* every node of the tree under n, n included
NodesOf(n) ==
    {n} \cup UNION {NodesOf(n.children[i]) :
                      i \in {j \in DOMAIN n.children : IsNode(n.children[j])}}

\* the nodes below the root (the root itself is the synthetic fragment)
Inner(root) == NodesOf(root) \ {root}

HasNode(root, e) == \E n \in Inner(root) : n.el = e
NodeFor(root, e) == CHOOSE n \in Inner(root) : n.el = e

----------------------------------------------------------------------------
(* Document mutations and the snapshot entry points *)

\* entry names the entry point that stored the snapshot and with it the
\* by-ref lookup functions it installed
NoSnap ==
    [root |-> NoNode, elements |-> <<>>, forAI |-> FALSE, entry |-> "none"]

Attached(d, e) == e \in Reachable(d, RootEl)

RemoveItem(s, it) ==
    LET F[i \in 0..Len(s)] ==
            IF i = 0 THEN <<>>
            ELSE IF s[i] = it THEN F[i - 1] ELSE Append(F[i - 1], s[i])
    IN F[Len(s)]

\* the role the oracle computes for e changes; an element without a role of
\* its own has no accessible name either
SetRole(e, r) ==
    /\ dom[e].role # r
    /\ dom' = [dom EXCEPT ![e].role = r,
                          ![e].name = IF r = "" THEN <<>> ELSE @]
    /\ synced' = FALSE
    /\ UNCHANGED <<lastRef, cache, rawTree, snap, aiRoot, infer, store,
                   nextId, addSent, delSent, addFailed, diffVars, sideVars,
                   call, w>>

\* the accessible name of e changes
SetName(e, n) ==
    /\ dom[e].role # ""
    /\ dom[e].name # n
    /\ dom' = [dom EXCEPT ![e].name = n]
    /\ synced' = FALSE
    /\ UNCHANGED <<lastRef, cache, rawTree, snap, aiRoot, infer, store,
                   nextId, addSent, delSent, addFailed, diffVars, sideVars,
                   call, w>>

\* e is removed from its parent; the element object and its cache live on
Detach(e) ==
    /\ e # RootEl
    /\ Attached(dom, e)
    /\ dom' = [x \in ElIds |->
                 [dom[x] EXCEPT !.kids = RemoveItem(@, ElItem(e))]]
    /\ synced' = FALSE
    /\ UNCHANGED <<lastRef, cache, rawTree, snap, aiRoot, infer, store,
                   nextId, addSent, delSent, addFailed, diffVars, sideVars,
                   call, w>>

\* the detached element e is appended to p
Attach(e, p) ==
    /\ e # RootEl
    /\ ~Attached(dom, e)
    /\ Attached(dom, p)
    /\ dom' = [dom EXCEPT ![p].kids = Append(@, ElItem(e))]
    /\ synced' = FALSE
    /\ UNCHANGED <<lastRef, cache, rawTree, snap, aiRoot, infer, store,
                   nextId, addSent, delSent, addFailed, diffVars, sideVars,
                   call, w>>

\* the build g becomes the last snapshot
KeepSnapshotBy(entry, opt, g) ==
    /\ g.lastRef <= MaxRef
    /\ snap' = [root |-> g.root, elements |-> g.elements,
                forAI |-> opt.forAI, entry |-> entry]
    /\ rawTree' = g.raw
    /\ lastRef' = g.lastRef
    /\ cache' = g.cache
    /\ aiRoot' = IF opt.forAI THEN g.root ELSE aiRoot

\* the text form is the entry point the synchronizer calls last
KeepSnapshot(opt, g) == KeepSnapshotBy("ariaSnapshot", opt, g)

\* a11y.ts ariaSnapshotJSON on the document element
Snapshot(opt) ==
    /\ KeepSnapshotBy("ariaSnapshotJSON", opt,
                      generateAriaTree(dom, opt, lastRef, cache))
    /\ UNCHANGED <<dom, memVars, diffVars, sideVars, call, w>>

----------------------------------------------------------------------------
(* Specification: successive builds of a changing document *)

RefRoles == {"", "button"}
RefNames == {<<>>, <<"a">>}
RefPrefixes == {<<>>, <<"f">>}

FlatDom ==
    [x \in ElIds |->
       IF x = RootEl
       THEN [BlankEl EXCEPT !.role = "document",
                            !.kids = [i \in 1..RefEls |-> ElItem(i)]]
       ELSE [BlankEl EXCEPT !.role = "button",
                            !.kids = <<TextItem(<<"x">>)>>]]

\* null, for an element handle
Null == 0 - 1

\* the record of an invocation: none in flight
NoErr == [msg |-> "", query |-> "", score |-> Null, threshold |-> Null,
          results |-> <<>>, action |-> <<>>]

NoCall == [op |-> "none", query |-> "", threshold |-> Null, results |-> <<>>,
           outcome |-> "none", handle |-> Null, action |-> "", ref |-> NoRef,
           live |-> FALSE, err |-> NoErr]

\* the wait loop: not running
NoWait == [pc |-> "idle", timeout |-> 0, polling |-> 0, threshold |-> 0,
           never |-> FALSE, elapsed |-> 0, spent |-> 0, attempts |-> 0,
           faulted |-> FALSE, results |-> <<>>, asked |-> 0, seen |-> <<>>]

IdleMem ==
    /\ infer = FALSE
    /\ store = <<>>
    /\ nextId = 1
    /\ addSent = 0
    /\ delSent = 0
    /\ addFailed = FALSE
    /\ synced = FALSE

IdleDiff ==
    /\ dcur = <<>>
    /\ dprev = <<>>
    /\ dout = [run |-> FALSE, toAdd |-> <<>>, toDelete |-> <<>>]

IdleCalls ==
    /\ call = NoCall
    /\ w = NoWait

\* the deep search has not run; parsePrompt has not been called
NoSearch == [run |-> FALSE, collectAll |-> FALSE, matches |-> <<>>]
NotParsed == [called |-> FALSE, threw |-> FALSE, attrs |-> <<>>]

IdlePure ==
    /\ tree = NoNode
    /\ template = NoNode
    /\ found = NoSearch
    /\ prompt = <<>>
    /\ parsed = NotParsed

\* a search result: none
NoHit == [id |-> Null, memory |-> <<>>, score |-> Null]

\* no invocation in progress. log holds the steps taken, builds counts the
\* snapshot rebuilds of the invocation, searchedAt and resolvedAt tell after
\* which rebuild the search and the lookup happened, executed lists the
\* action executors invoked
NoRun ==
    [op |-> "none", pc |-> "idle", query |-> "", threshold |-> Null,
     params |-> FALSE, outer |-> FALSE, log |-> <<>>, builds |-> 0,
     polls |-> 0, cur |-> <<>>, results |-> <<>>, searchedAt |-> 0,
     hit |-> NoHit, ref |-> NoRef, resolvedAt |-> 0, handle |-> Null,
     target |-> NoHit, targetRef |-> NoRef, targetHandle |-> Null,
     executed |-> <<>>, outcome |-> "none", msg |-> ""]

\* the tree builder is installed and no invocation is in progress
IdleSteps ==
    /\ a11y = TRUE
    /\ run = NoRun

FreshPage ==
    /\ lastRef = 0
    /\ cache = [x \in ElIds |-> NoCache]
    /\ rawTree = NoNode
    /\ snap = NoSnap
    /\ aiRoot = NoNode

InitRef ==
    /\ dom = FlatDom
    /\ FreshPage
    /\ IdleMem
    /\ IdleDiff
    /\ IdleCalls
    /\ IdlePure
    /\ IdleSteps

NextRef ==
    \/ \E e \in 1..RefEls, r \in RefRoles : SetRole(e, r)
    \/ \E e \in 1..RefEls, n \in RefNames : SetName(e, n)
    \/ Detach(RefEls)
    \/ Attach(RefEls, RootEl)
    \/ Snapshot([forAI |-> TRUE, refPrefix |-> <<>>])

SpecRef == InitRef /\ [][NextRef]_vars

----------------------------------------------------------------------------
(* Reference stability and churn *)

\* the references a counter that stands at n can have produced so far
Minted(n) == {RefString(p, k) : p \in RefPrefixes, k \in 1..n}

\* e is a node of both of two successive reference-minting builds
InBoth(e) ==
    /\ aiRoot # NoNode
    /\ aiRoot' # NoNode
    /\ HasNode(aiRoot, e)
    /\ HasNode(aiRoot', e)

SameIdentity(e) ==
    /\ NodeFor(aiRoot', e).role = NodeFor(aiRoot, e).role
    /\ NodeFor(aiRoot', e).name = NodeFor(aiRoot, e).name

\* C1: an element that is a node of two successive reference-minting builds
\* with the same role and name in both carries the same ref in both,
\* whatever happened to the other elements in between.
C1_RefStability ==
    [][aiRoot' # aiRoot =>
         \A e \in ElIds :
            (InBoth(e) /\ SameIdentity(e))
               => NodeFor(aiRoot', e).ref = NodeFor(aiRoot, e).ref]_vars

\* element 2 still carries its first ref after element 1 was given a new one
C1_Witness ==
    /\ aiRoot # NoNode
    /\ HasNode(aiRoot, 1) /\ HasNode(aiRoot, 2)
    /\ NodeFor(aiRoot, 2).ref = RefString(<<>>, 3)
    /\ NodeFor(aiRoot, 1).ref = RefString(<<>>, 4)

\* C2: when the role or the name of an element differs between two successive
\* reference-minting builds, the second build gives it a ref that differs
\* from its previous one and from every ref issued before (the counter never
\* decreases and every ref in a tree was issued by it), so a name that
\* changes back does not bring an earlier ref back.
C2_RefChurn ==
    [][/\ lastRef' >= lastRef
       /\ aiRoot' # aiRoot =>
            /\ \A n \in Inner(aiRoot') : n.ref \in Minted(lastRef')
            /\ \A e \in ElIds :
                 (InBoth(e) /\ ~SameIdentity(e))
                    => /\ NodeFor(aiRoot', e).ref # NodeFor(aiRoot, e).ref
                       /\ NodeFor(aiRoot', e).ref \notin Minted(lastRef)]_vars

\* element 1 is back at its first role and name and carries a third ref
C2_Witness ==
    /\ aiRoot # NoNode
    /\ HasNode(aiRoot, 1) /\ HasNode(aiRoot, 2)
    /\ NodeFor(aiRoot, 1).role = "button"
    /\ NodeFor(aiRoot, 1).name = <<>>
    /\ NodeFor(aiRoot, 1).ref = RefString(<<>>, 5)
    /\ NodeFor(aiRoot, 2).ref = RefString(<<>>, 3)

----------------------------------------------------------------------------
(* Memory synchronizer: the diff *)

\* two records are the same when content and role are equal
SameRecord(a, b) == a.content = b.content /\ a.role = b.role

needsToBeAddedAll(cur, prev) == cur

\* syncA11yMemoryFromTree: needsToBeAddedMemories
needsToBeAdded(cur, prev) ==
    LET missing(m) == ~\E i \in DOMAIN prev : SameRecord(m, prev[i])
    IN SelectSeq(cur, missing)

needsToBeDeletedFirstOnly(cur, prev) ==
    LET stale(r) == cur = <<>> \/ ~SameRecord(r, cur[1])
    IN SelectSeq(prev, stale)

\* a diff that never finds a record outdated
needsToBeDeletedNone(cur, prev) == <<>>

\* syncA11yMemoryFromTree: needsToBeDeletedMemories
needsToBeDeleted(cur, prev) ==
    LET stale(r) == ~\E i \in DOMAIN cur : SameRecord(r, cur[i])
    IN SelectSeq(prev, stale)

----------------------------------------------------------------------------
(* Specification: the diff over arbitrary descriptions and store records *)

DiffContents == {"A", "B", "Bp", "C", "D"}

Description(c) == [role |-> "user", content |-> c]
StoreRecord(i, c) == [role |-> "user", content |-> c, id |-> i]

\* the tree yields one more description (distinct nodes and actions never
\* describe alike)
PushCur(c) ==
    /\ ~dout.run
    /\ Len(dcur) < MaxCur
    /\ \A i \in DOMAIN dcur : dcur[i].content # c
    /\ dcur' = Append(dcur, Description(c))
    /\ UNCHANGED <<docVars, memVars, dprev, dout, call, w, sideVars>>

\* the store holds one more record
PushPrev(c) ==
    /\ ~dout.run
    /\ Len(dprev) < MaxPrev
    /\ dprev' = Append(dprev, StoreRecord(Len(dprev) + 1, c))
    /\ UNCHANGED <<docVars, memVars, dcur, dout, call, w, sideVars>>

RunDiff ==
    /\ ~dout.run
    /\ dout' = [run |-> TRUE, toAdd |-> needsToBeAdded(dcur, dprev),
                toDelete |-> needsToBeDeleted(dcur, dprev)]
    /\ UNCHANGED <<docVars, memVars, dcur, dprev, call, w, sideVars>>

InitDiff ==
    /\ dom = FlatDom
    /\ FreshPage
    /\ IdleMem
    /\ IdleDiff
    /\ IdleCalls
    /\ IdlePure
    /\ IdleSteps

NextDiff ==
    \/ \E c \in DiffContents : PushCur(c)
    \/ \E c \in DiffContents : PushPrev(c)
    \/ RunDiff

SpecDiff == InitDiff /\ [][NextDiff]_vars

CurUnmatched == {i \in DOMAIN dcur :
                   \A j \in DOMAIN dprev : ~SameRecord(dcur[i], dprev[j])}
PrevUnmatched == {j \in DOMAIN dprev :
                    \A i \in DOMAIN dcur : ~SameRecord(dprev[j], dcur[i])}

\* C3: toAdd holds exactly the current descriptions no previous record equals
\* in role and content, toDelete exactly the previous records no current
\* description equals, each once; what is present on both sides is in neither.
C3_DiffCorrect ==
    dout.run =>
      /\ SeqToSet(dout.toAdd) = {dcur[i] : i \in CurUnmatched}
      /\ Len(dout.toAdd) = Cardinality(CurUnmatched)
      /\ SeqToSet(dout.toDelete) = {dprev[j] : j \in PrevUnmatched}
      /\ Len(dout.toDelete) = Cardinality(PrevUnmatched)
      /\ \A i \in DOMAIN dcur, j \in DOMAIN dprev :
            SameRecord(dcur[i], dprev[j]) =>
               /\ dcur[i] \notin SeqToSet(dout.toAdd)
               /\ dprev[j] \notin SeqToSet(dout.toDelete)
      /\ (/\ dprev = <<StoreRecord(1, "A"), StoreRecord(2, "B"),
                       StoreRecord(3, "C")>>
          /\ dcur = <<Description("A"), Description("Bp"),
                      Description("D")>>)
           => /\ dout.toAdd = <<Description("Bp"), Description("D")>>
              /\ dout.toDelete = <<StoreRecord(2, "B"), StoreRecord(3, "C")>>

\* the diff has run on previous = {A, B, C} and current = {A, B', D}
C3_Witness ==
    /\ dout.run
    /\ dprev = <<StoreRecord(1, "A"), StoreRecord(2, "B"), StoreRecord(3, "C")>>
    /\ dcur = <<Description("A"), Description("Bp"), Description("D")>>

----------------------------------------------------------------------------
(* Object-graph renderer and the element descriptions *)

\* [...new Set(actions)]: the first occurrence of each action, in order
RECURSIVE DedupeInto(_, _)
DedupeInto(s, out) ==
    IF s = <<>> THEN out
    ELSE DedupeInto(Tail(s), IF Head(s) \in SeqToSet(out) THEN out
                             ELSE Append(out, Head(s)))

Dedupe(s) == DedupeInto(s, <<>>)

LowerChar(c) ==
    IF c = "F" THEN "f" ELSE IF c = "I" THEN "i"
    ELSE IF c = "L" THEN "l" ELSE IF c = "E" THEN "e" ELSE c

\* name.toLowerCase().includes("file")
IncludesFile(name) ==
    \E i \in 1..Len(name) :
        /\ i + 3 <= Len(name)
        /\ [k \in 1..4 |-> LowerChar(name[i + k - 1])] = <<"f", "i", "l", "e">>

\* generateSupportedActions: the switch on the role
RoleActions(role, checked) ==
    IF role \in {"textbox", "searchbox"} THEN <<"type">>
    ELSE IF role = "combobox" THEN <<"type", "select_option">>
    ELSE IF role = "button" THEN <<"press_key">>
    ELSE IF role \in {"checkbox", "radio", "switch"}
         THEN (IF checked # "undef" THEN <<"click">> ELSE <<>>)
    ELSE IF role = "link" THEN <<"drag">>
    ELSE IF role \in {"listbox", "option"} THEN <<"select_option">>
    ELSE IF role \in {"slider", "spinbutton"} THEN <<"type">>
    ELSE IF role \in {"menuitem", "tab"} THEN <<"press_key">>
    ELSE <<>>

\* generateSupportedActions returning the list with its repetitions
FinishActionsKeepsDuplicates(n, actions) ==
    IF n.disabled = "true" THEN <<"hover">>
    ELSE (IF n.role = "textbox" /\ IncludesFile(n.name)
          THEN Append(actions, "file_upload") ELSE actions)
         \o <<"drag">>

\* generateSupportedActions after the switch; actions is never empty here
FinishActions(n, actions) ==
    IF n.disabled = "true" THEN <<"hover">>
    ELSE Dedupe((IF n.role = "textbox" /\ IncludesFile(n.name)
                 THEN Append(actions, "file_upload") ELSE actions)
                \o <<"drag">>)

generateSupportedActions(n) ==
    IF ~receivesPointerEvents(n) \/ n.ref = NoRef THEN <<>>
    ELSE FinishActions(n,
            (IF n.clickable = "true" THEN <<"click">> ELSE <<>>)
            \o <<"hover">> \o RoleActions(n.role, n.checked))

\* roleUtils.getRolePurpose: a sentence fixed by the role, none for generic
getRolePurpose(role) ==
    IF role = "generic" THEN <<>> ELSE <<" ", "purpose of ", role, ".">>

\* "the role named "name"": the context phrase and the core identity share it
Named(role, name) ==
    <<role>> \o (IF name # <<>> THEN <<" named ", "\"">> \o name \o <<"\"">>
                 ELSE <<>>)

\* generateDescriptivePrompt: the state words joined by " and "
StateWords(n) ==
    (IF n.checked # "undef"
     THEN <<IF n.checked = "false" THEN "unchecked" ELSE "checked">>
     ELSE <<>>)
    \o (IF n.clickable # "undef"
        THEN <<IF n.clickable = "true" THEN "clickable" ELSE "not clickable">>
        ELSE <<>>)
    \o (IF n.disabled = "true" THEN <<"disabled">> ELSE <<>>)

RECURSIVE JoinAnd(_)
JoinAnd(words) ==
    IF Len(words) <= 1 THEN words
    ELSE <<Head(words), " and ">> \o JoinAnd(Tail(words))

\* generateDescriptivePrompt(ariaNode, parentContext), as a run of tokens
generateDescriptivePrompt(n, parentContext) ==
    <<"This is a ">> \o Named(n.role, n.name) \o <<".">>
    \o getRolePurpose(n.role)
    \o (IF parentContext # <<>>
        THEN <<" It is located inside ">> \o parentContext \o <<".">>
        ELSE <<" It is a top-level element on the page.">>)
    \o (IF StateWords(n) # <<>>
        THEN <<" Currently, its state is ">> \o JoinAnd(StateWords(n))
             \o <<".">>
        ELSE <<>>)
    \o (IF n.ref # NoRef
        THEN <<" Attributes: ", "{", "\"", "ref", "\"", ":", "\"">> \o n.ref
             \o <<"\"", "}">>
        ELSE <<>>)

\* the text leaf of the object graph; an empty run renders nothing
JsonText(c, parentContext) ==
    IF c.s = <<>> THEN <<>>
    ELSE <<[t |-> "jtext", text |-> c.s,
            descriptivePrompt |->
                <<"This is the text content ", "\"">> \o c.s
                \o <<"\"", " located inside ">> \o parentContext \o <<".">>]>>

\* buildJsonObject on a node, its children already built
JsonNode(n, opt, parentContext, children) ==
    [t |-> "jnode", role |-> n.role,
     descriptivePrompt |-> generateDescriptivePrompt(n, parentContext),
     name |-> n.name,
     supportedActions |->
        IF receivesPointerEvents(n) THEN generateSupportedActions(n)
        ELSE <<>>,
     clickable |-> n.clickable,
     disabled |-> IF n.disabled = "true" THEN "true" ELSE "undef",
     ref |-> IF opt.forAI /\ receivesPointerEvents(n) THEN n.ref ELSE NoRef,
     children |-> children]

RECURSIVE buildJsonObject(_, _, _), JsonChildren(_, _, _)

\* the children mapped through buildJsonObject, nulls filtered out
JsonChildren(children, opt, ctx) ==
    IF children = <<>> THEN <<>>
    ELSE (IF IsText(Head(children)) THEN JsonText(Head(children), ctx)
          ELSE <<buildJsonObject(Head(children), opt, ctx)>>)
         \o JsonChildren(Tail(children), opt, ctx)

buildJsonObject(n, opt, parentContext) ==
    JsonNode(n, opt, parentContext,
             JsonChildren(n.children, opt, <<"the ">> \o Named(n.role, n.name)))

\* renderAriaTreeAsJSON on a fragment root: the list of its children's objects
renderAriaTreeAsJSON(root, opt) == JsonChildren(root.children, opt, <<>>)

\* a stringify that leaves the quotes inside a string as they are
JsonStringRaw(str) == <<"\"">> \o str \o <<"\"">>

\* JSON.stringify of a string: quoted, inner quotes escaped
JsonString(str) ==
    <<"\"">> \o [i \in DOMAIN str |-> IF str[i] = "\"" THEN "\\\"" ELSE str[i]]
    \o <<"\"">>

\* contentFormatter.ts formatElementContent; the attributes in insertion order
formatElementContent(action, jn) ==
    <<action, " ">> \o jn.name \o <<" ", jn.role, ", with Attributes: ">>
    \o <<"{", "\"ref\":">> \o JsonString(jn.ref)
    \o <<",", "\"action\":">> \o JsonString(<<action>>)
    \o <<",", "\"descriptivePrompt\":">> \o JsonString(jn.descriptivePrompt)
    \o (IF jn.clickable # "undef" THEN <<",", "\"clickable\":", jn.clickable>>
        ELSE <<>>)
    \o (IF jn.disabled # "undef" THEN <<",", "\"disabled\":", jn.disabled>>
        ELSE <<>>)
    \o <<"}">>

createMemoryEntry(action, jn) ==
    [role |-> "user", content |-> formatElementContent(action, jn)]

\* one entry per supported action of a node that carries a ref
OwnEntries(jn) ==
    IF jn.ref # NoRef /\ jn.supportedActions # <<>>
    THEN [i \in DOMAIN jn.supportedActions |->
            createMemoryEntry(jn.supportedActions[i], jn)]
    ELSE <<>>

RECURSIVE extractElementsFromA11yNode(_), ExtractAll(_)

\* flatMap of extractElementsFromA11yNode over the objects that have a role
ExtractAll(list) ==
    IF list = <<>> THEN <<>>
    ELSE (IF Head(list).t = "jnode"
          THEN extractElementsFromA11yNode(Head(list)) ELSE <<>>)
         \o ExtractAll(Tail(list))

extractElementsFromA11yNode(jn) == OwnEntries(jn) \o ExtractAll(jn.children)

----------------------------------------------------------------------------
(* Memory synchronizer: Setup against the external store *)

AIOpt == [forAI |-> TRUE, refPrefix |-> <<>>]

\* memory.getAll mapped to the records the diff compares
GetAll(st) == [i \in DOMAIN st |-> StoreRecord(st[i].id, st[i].memory)]

\* the store after memory.delete(id) for each id in ids
RECURSIVE DeleteAll(_, _)
DeleteAll(st, ids) ==
    IF st = <<>> THEN <<>>
    ELSE (IF Head(st).id \in ids THEN <<>> ELSE <<Head(st)>>)
         \o DeleteAll(Tail(st), ids)

\* the store after memory.add(records, {infer: false}): one memory per
\* record, under ids of the store's choosing
AddAll(st, records, first) ==
    st \o [i \in DOMAIN records |->
             [id |-> first + i - 1, memory |-> records[i].content]]

\* infer = false: add and delete are dispatched only for non-empty lists
Apply(toAdd, toDelete) ==
    /\ nextId + Len(toAdd) <= MaxId + 1
    /\ store' = AddAll(DeleteAll(store, {toDelete[i].id : i \in DOMAIN toDelete}),
                       toAdd, nextId)
    /\ nextId' = nextId + Len(toAdd)
    /\ addSent' = IF toAdd # <<>> THEN 1 ELSE 0
    /\ delSent' = Len(toDelete)

\* a description as the store may reword it: the action is one that act does
\* not know
Reworded(content) ==
    [i \in DOMAIN content |->
       IF i > 2 /\ content[i - 2] = "\"action\":" THEN "scroll"
       ELSE content[i]]

\* a description as the store may shorten it: the action attribute (a comma,
\* the key and the quoted value) is gone
WithoutAction(content) ==
    SelectSeq([i \in DOMAIN content |->
                 IF \E k \in DOMAIN content :
                       content[k] = "\"action\":" /\ i \in (k - 1)..(k + 3)
                 THEN "" ELSE content[i]],
              LAMBDA tok : tok # "")

\* a description as the store may head it with the reference mark that the
\* snapshot text carries
Marked(content) == <<"[ref=">> \o content

\* what the store makes of memory.add(snapshot, {infer: true}): nothing, or
\* one memory with a text of its own making (a plain fact, the words of the
\* last description, those words with another action or with none)
InferContents(cur) ==
    {<<"fact">>}
      \cup UNION {{cur[i].content, Reworded(cur[i].content),
                   WithoutAction(cur[i].content)}
                    : i \in DOMAIN cur \cap {Len(cur)}}

\* the same, and the words of the last description under the snapshot's
\* reference mark
InferContentsMarked(cur) ==
    InferContents(cur)
      \cup {Marked(cur[i].content) : i \in DOMAIN cur \cap {Len(cur)}}

\* infer = true: the add is dispatched on every sync, nothing is deleted;
\* the store keeps none or one of the texts it may infer
InferAddFrom(contents) ==
    /\ addSent' = 1
    /\ delSent' = 0
    /\ \/ UNCHANGED <<store, nextId>>
       \/ /\ nextId <= MaxId
          /\ Len(store) < MaxInferred
          /\ \E c \in contents :
                store' = Append(store, [id |-> nextId, memory |-> c])
          /\ nextId' = nextId + 1

InferAdd(cur) == InferAddFrom(InferContents(cur))

Dispatch(cur, prev) ==
    IF infer THEN InferAdd(cur)
    ELSE Apply(needsToBeAdded(cur, prev), needsToBeDeleted(cur, prev))

\* the object graph comes from the first build, the last snapshot is the
\* second one (the text form)
SyncBuilt(g1, g2) ==
    /\ KeepSnapshot(AIOpt, g2)
    /\ Dispatch(ExtractAll(renderAriaTreeAsJSON(g1.root, AIOpt)),
                GetAll(store))

SyncFrom(g1) ==
    SyncBuilt(g1, generateAriaTree(dom, AIOpt, g1.lastRef, g1.cache))

syncA11yMemoryFromTree ==
    SyncFrom(generateAriaTree(dom, AIOpt, lastRef, cache))

\* setup(): injection (a no-op once injected), blink, sync
setup ==
    /\ syncA11yMemoryFromTree
    /\ synced' = TRUE
    /\ addFailed' = FALSE
    /\ UNCHANGED <<dom, infer, diffVars, sideVars>>

\* a Setup on its own (the snapshot entry of the eye)
Setup ==
    /\ setup
    /\ UNCHANGED <<call, w>>

\* infer = false and memory.add rejects, having stored the first k records:
\* the deletes were dispatched next to the add, before anything is awaited,
\* and run to completion
ApplyAddRejects(toAdd, toDelete) ==
    /\ toAdd # <<>>
    /\ \E k \in 0..(Len(toAdd) - 1) :
          /\ nextId + k <= MaxId + 1
          /\ store' = AddAll(DeleteAll(store, {toDelete[i].id :
                                                 i \in DOMAIN toDelete}),
                             SubSeq(toAdd, 1, k), nextId)
          /\ nextId' = nextId + k
    /\ addSent' = 1
    /\ delSent' = Len(toDelete)

DispatchRejected(cur, prev) ==
    /\ ~infer
    /\ ApplyAddRejects(needsToBeAdded(cur, prev), needsToBeDeleted(cur, prev))

SyncRejectedBuilt(g1, g2) ==
    /\ KeepSnapshot(AIOpt, g2)
    /\ DispatchRejected(ExtractAll(renderAriaTreeAsJSON(g1.root, AIOpt)),
                        GetAll(store))

SyncRejectedFrom(g1) ==
    SyncRejectedBuilt(g1, generateAriaTree(dom, AIOpt, g1.lastRef, g1.cache))

\* a Setup whose sync rejects with the error of memory.add
SetupAddRejects ==
    /\ SyncRejectedFrom(generateAriaTree(dom, AIOpt, lastRef, cache))
    /\ synced' = FALSE
    /\ addFailed' = TRUE
    /\ UNCHANGED <<dom, infer, diffVars, sideVars, call, w>>

----------------------------------------------------------------------------
(* Specification: Setup over a changing document *)

SyncDom ==
    [x \in ElIds |->
       IF x = RootEl
       THEN [BlankEl EXCEPT !.role = "document",
                            !.kids = <<ElItem(1), ElItem(2)>>]
       ELSE IF x = 1
       THEN [BlankEl EXCEPT !.role = "button",
                            !.kids = <<TextItem(<<"x">>)>>]
       ELSE [BlankEl EXCEPT !.role = "button", !.disabled = TRUE,
                            !.kids = <<TextItem(<<"y">>)>>]]

InitSync ==
    /\ dom = SyncDom
    /\ FreshPage
    /\ infer \in BOOLEAN
    /\ store = <<>>
    /\ nextId = 1
    /\ addSent = 0
    /\ delSent = 0
    /\ addFailed = FALSE
    /\ synced = FALSE
    /\ IdleDiff
    /\ IdleCalls
    /\ IdlePure
    /\ IdleSteps

NextSync ==
    \/ \E r \in RefRoles : SetRole(1, r)
    \/ \E n \in RefNames : SetName(1, n)
    \/ Detach(2)
    \/ Attach(2, RootEl)
    \/ Setup

SpecSync == InitSync /\ [][NextSync]_vars

\* C4: in the default mode (infer = false), once a sync has completed against
\* a document, a further sync against the unchanged document dispatches no
\* add and no delete and leaves the store as it was.
C4_IdempotentSync ==
    [][(synced /\ synced' /\ ~infer)
          => (addSent' = 0 /\ delSent' = 0 /\ store' = store)]_vars

\* a second sync has run against a document whose elements are in the store
C4_Witness ==
    /\ synced /\ ~infer
    /\ addSent = 0 /\ delSent = 0
    /\ store # <<>>

\* the statement for every mode: it fails when the store infers its memories
C4_AnyMode ==
    [][(synced /\ synced')
          => (addSent' = 0 /\ delSent' = 0 /\ store' = store)]_vars

----------------------------------------------------------------------------
(* Specification: Setup against a store whose add may reject *)

InitFail ==
    /\ InitSync
    /\ ~infer

NextFail ==
    \/ \E r \in RefRoles : SetRole(1, r)
    \/ \E n \in RefNames : SetName(1, n)
    \/ Detach(2)
    \/ Attach(2, RootEl)
    \/ Setup
    \/ SetupAddRejects

SpecFail == InitFail /\ [][NextFail]_vars

StillHolds(st, rec) == \E j \in DOMAIN st : st[j] = rec

\* C18: when the add of a sync fails, no record that was in the store has
\* been deleted by that sync: the store may keep stale records, but it does
\* not lose the records to delete while the records to add are missing.
C18_AddBeforeDelete ==
    [][addFailed' => \A i \in DOMAIN store : StillHolds(store', store[i])]_vars

----------------------------------------------------------------------------
(* Element resolution: look, act and the tail of wait *)

\* the position of the first token of s at or after i that satisfies Test
RECURSIVE IndexFrom(_, _, _)
IndexFrom(s, i, tok) ==
    IF i > Len(s) THEN 0
    ELSE IF s[i] = tok THEN i ELSE IndexFrom(s, i + 1, tok)

AttributeMarks == {", with Attributes: ", " Attributes: "}

RECURSIVE MarkFrom(_, _)
MarkFrom(s, i) ==
    IF i > Len(s) THEN 0
    ELSE IF s[i] \in AttributeMarks THEN i ELSE MarkFrom(s, i + 1)

\* the keys of the attribute objects and their spelling in a JSON text
JsonKeys ==
    {"ref", "action", "descriptivePrompt", "clickable", "disabled", "type"}
KeyToken(k) == "\"" \o k \o "\":"
KeyOf(tok) == CHOOSE k \in JsonKeys : KeyToken(k) = tok
JsonLiterals == {"true", "false", "null"}

\* a parsed value: the characters of a string, or a literal
StringValue(chars) == [str |-> TRUE, v |-> chars]
LiteralValue(tok) == [str |-> FALSE, v |-> <<tok>>]

\* the characters of a JSON string with the escapes undone
Unescape(chars) ==
    [i \in DOMAIN chars |-> IF chars[i] = "\\\"" THEN "\"" ELSE chars[i]]

\* JSON.parse of a flat object: the object, or the failure
ParseFailed == [ok |-> FALSE, obj |-> <<>>]
ParseDone(obj) == [ok |-> TRUE, obj |-> obj]

RECURSIVE ParseMember(_, _, _)

\* after a value: the end of the object, which ends the text, or a comma
AfterValue(s, i, obj) ==
    IF i > Len(s) THEN ParseFailed
    ELSE IF s[i] = "}" THEN (IF i = Len(s) THEN ParseDone(obj)
                             ELSE ParseFailed)
    ELSE IF s[i] = "," THEN ParseMember(s, i + 1, obj)
    ELSE ParseFailed

\* a string value that opens at i and closes at j (0: it never closes)
ParseString(s, i, j, key, obj) ==
    IF j = 0 THEN ParseFailed
    ELSE AfterValue(s, j + 1,
                    MapSet(obj, key,
                           StringValue(Unescape(SubSeq(s, i + 1, j - 1)))))

ParseValue(s, i, key, obj) ==
    IF i > Len(s) THEN ParseFailed
    ELSE IF s[i] = "\""
         THEN ParseString(s, i, IndexFrom(s, i + 1, "\""), key, obj)
    ELSE IF s[i] \in JsonLiterals
         THEN AfterValue(s, i + 1, MapSet(obj, key, LiteralValue(s[i])))
    ELSE ParseFailed

ParseMember(s, i, obj) ==
    IF i > Len(s) \/ s[i] \notin {KeyToken(k) : k \in JsonKeys}
    THEN ParseFailed
    ELSE ParseValue(s, i + 1, KeyOf(s[i]), obj)

\* the text from position i on is one JSON object
ParseObject(s, i) ==
    IF i > Len(s) \/ s[i] # "{" THEN ParseFailed
    ELSE IF i + 1 <= Len(s) /\ s[i + 1] = "}"
         THEN (IF i + 1 = Len(s) THEN ParseDone(<<>>) ELSE ParseFailed)
    ELSE ParseMember(s, i + 1, <<>>)

\* the outcome of a parsePrompt call: it threw, or it returned attrs
Outcome(threw, attrs) == [threw |-> threw, attrs |-> attrs]

\* parsePrompt that lets the failure of JSON.parse escape
tryParseNoCatch(content) ==
    IF MarkFrom(content, 1) = 0 THEN Outcome(FALSE, <<>>)
    ELSE Outcome(~ParseObject(content, MarkFrom(content, 1) + 1).ok,
                 ParseObject(content, MarkFrom(content, 1) + 1).obj)

\* parsePrompt: the JSON object after "Attributes: ", {} when there is none
\* or it does not parse
tryParse(content) ==
    IF MarkFrom(content, 1) = 0 THEN Outcome(FALSE, <<>>)
    ELSE Outcome(FALSE, ParseObject(content, MarkFrom(content, 1) + 1).obj)

parsePrompt(content) == tryParse(content).attrs

\* parsePrompt(content).ref and .action as look, wait and act read them
\* (a missing key, null and false all read as falsy)
Prop(obj, key) ==
    IF key \in DOMAIN obj
       /\ (obj[key].str \/ obj[key].v \notin {<<"null">>, <<"false">>})
    THEN obj[key].v ELSE <<>>

Props(content) ==
    [ref |-> Prop(parsePrompt(content), "ref"),
     action |-> Prop(parsePrompt(content), "action")]

\* a11yRefSelect: the element the last snapshot maps ref to, or null
a11yRefSelect(elements, ref) ==
    IF ref \in DOMAIN elements THEN elements[ref] ELSE Null

Resolved(c, ref, h) ==
    [c EXCEPT !.outcome = "resolved", !.handle = h, !.ref = ref,
              !.live = h # Null]

Failed(c, how, e) == [c EXCEPT !.outcome = how, !.err = e]

NotFound(c, score, list) ==
    Failed(c, IF c.op = "act" THEN "thrown" ELSE "rejected",
           [NoErr EXCEPT !.msg = "not found", !.query = c.query,
                         !.score = score, !.threshold = c.threshold,
                         !.results = list])

Thrown(c, msg) == Failed(c, "thrown", [NoErr EXCEPT !.msg = msg])

scoreBelowOrEqual(score, threshold) == score <= threshold

\* element?.score! < similarityThreshold
scoreBelow(score, threshold) == score < threshold


\* list.slice(0, n)
Slice(list, n) == SubSeq(list, 1, IF Len(list) < n THEN Len(list) ELSE n)

\* look() after the search
Select(c, ref, elements) == Resolved(c, ref, a11yRefSelect(elements, ref))

\* with no result at all the gate passes (undefined < threshold is false) and
\* parsePrompt is handed undefined: it throws, or answers {} and look
\* resolves to null
LookOutcomes(c, elements) ==
    IF c.results = <<>>
    THEN {Thrown(c, "TypeError"), Select(c, NoRef, elements)}
    ELSE IF scoreBelow(c.results[1].score, c.threshold)
    THEN {NotFound(c, c.results[1].score, Slice(c.results, 10))}
    ELSE {Select(c, Props(c.results[1].memory).ref, elements)}

\* findElementAndAction: the results that carry a ref
Actionable(results) ==
    LET hasRef(r) == Props(r.memory).ref # NoRef
    IN SelectSeq(results, hasRef)

ParamActions == {<<"type">>, <<"select_option">>, <<"drag">>, <<"file_upload">>}
PlainActions == {<<"click">>, <<"press_key">>, <<"hover">>}

\* act(): the switch on the action type; params tells whether the description
\* carries what the action needs
\* the default case: Unknown action type: ... in description: ...
Unsupported(c, actionType) ==
    Failed(c, "thrown", [NoErr EXCEPT !.msg = "unknown action",
                                      !.query = c.query,
                                      !.action = actionType])

\* an act whose switch falls through to a click for a type it does not know
PerformClicksByDefault(c, actionType, params) ==
    IF actionType \in PlainActions \/ (actionType \in ParamActions /\ params)
    THEN [c EXCEPT !.action = actionType[1]]
    ELSE IF actionType \in ParamActions
    THEN Thrown(c, "requires parameters")
    ELSE [c EXCEPT !.action = "click"]

Perform(c, actionType, params) ==
    IF actionType \in PlainActions \/ (actionType \in ParamActions /\ params)
    THEN [c EXCEPT !.action = actionType[1]]
    ELSE IF actionType \in ParamActions
    THEN Thrown(c, "requires parameters")
    ELSE Unsupported(c, actionType)

ActOn(c, props, elements, params) ==
    IF a11yRefSelect(elements, props.ref) = Null
    THEN Thrown([c EXCEPT !.ref = props.ref], "not accessible")
    ELSE Perform(Select(c, props.ref, elements),
                 IF props.action = <<>> THEN <<"click">> ELSE props.action,
                 params)

\* findElementAndAction and the rest of act(); a is the actionable results
ActFrom(c, a, elements, params) ==
    IF a = <<>> THEN Thrown(c, "TypeError")
    ELSE IF scoreBelow(a[1].score, c.threshold)
    THEN NotFound(c, a[1].score, Slice(a, 5))
    ELSE ActOn(c, Props(a[1].memory), elements, params)

ActOutcome(c, elements, params) ==
    ActFrom(c, Actionable(c.results), elements, params)

\* options.similarityThreshold || 0.8, in hundredths
EffectiveThreshold(threshold) == IF threshold = 0 THEN 80 ELSE threshold

Qualifying(results, threshold) ==
    LET ok(r) == r.score >= EffectiveThreshold(threshold)
    IN SelectSeq(results, ok)

\* wait() once waitElementByDescription has returned the qualifying results
WaitOutcome(c, elements) ==
    IF scoreBelow(c.results[1].score, c.threshold)
    THEN NotFound(c, c.results[1].score, Slice(c.results, 10))
    ELSE Select(c, Props(c.results[1].memory).ref, elements)

----------------------------------------------------------------------------
(* Specification: look, act and wait against a changing document *)

\* similarity scores and thresholds, in hundredths
ScoreSet == {79, 80}
Thresholds == {0, 80}
Queries == {"X"}

\* the records a query can match: those about hovering and the inferred ones
SearchPool(st) ==
    {i \in DOMAIN st : st[i].memory[1] \in {"hover", "fact"}}

Hit(st, i, score) ==
    [id |-> st[i].id, memory |-> st[i].memory, score |-> score]

\* memory.search: at most MaxResults records, ranked by descending score
SearchResults(st) ==
    {<<>>}
    \cup {<<Hit(st, i, x)>> : i \in SearchPool(st), x \in ScoreSet}
    \cup (IF MaxResults < 2 THEN {}
          ELSE {<<Hit(st, ij[1], xy[1]), Hit(st, ij[2], xy[2])>> :
                  ij \in {p \in SearchPool(st) \X SearchPool(st) : p[1] # p[2]},
                  xy \in {q \in ScoreSet \X ScoreSet : q[1] >= q[2]}})

Header(op, q, th, results) ==
    [NoCall EXCEPT !.op = op, !.query = q, !.threshold = th,
                   !.results = results]

Look(q, th) ==
    /\ call.op = "none"
    /\ setup
    /\ \E r \in SearchResults(store') :
          call' \in LookOutcomes(Header("look", q, th, r), snap'.elements)
    /\ UNCHANGED w

Act(q, th, params) ==
    /\ call.op = "none"
    /\ setup
    /\ \E r \in SearchResults(store') :
          call' = ActOutcome(Header("act", q, th, r), snap'.elements, params)
    /\ UNCHANGED w

\* the iteration of wait that finds qualifying results
Wait(q, th) ==
    /\ call.op = "none"
    /\ setup
    /\ \E r \in SearchResults(store') :
          /\ Qualifying(r, th) # <<>>
          /\ call' = WaitOutcome(Header("wait", q, th, Qualifying(r, th)),
                                 snap'.elements)
    /\ UNCHANGED w

\* the caller takes the result
Return ==
    /\ call.op # "none"
    /\ call' = NoCall
    /\ UNCHANGED <<docVars, memVars, diffVars, sideVars, w>>

InitLook == InitSync

NextLook ==
    \/ call.op = "none" /\ Detach(2)
    \/ call.op = "none" /\ Attach(2, RootEl)
    \/ \E q \in Queries, th \in Thresholds : Look(q, th)
    \/ \E q \in Queries, th \in Thresholds, params \in BOOLEAN :
          Act(q, th, params)
    \/ \E q \in Queries, th \in Thresholds : Wait(q, th)
    \/ Return

SpecLook == InitLook /\ [][NextLook]_vars


\* C5: when the top-ranked result scores strictly below the threshold, look
\* rejects without resolving a reference, and the rejection carries the query,
\* that score, the threshold and the candidate list; a score equal to the
\* threshold (or above it) is not rejected.
C5_ThresholdGate ==
    (call.op = "look" /\ call.results # <<>>) =>
        IF call.results[1].score < call.threshold
        THEN /\ call.outcome = "rejected"
             /\ call.handle = Null
             /\ call.ref = NoRef
             /\ call.err = [msg |-> "not found", query |-> call.query,
                            score |-> call.results[1].score,
                            threshold |-> call.threshold,
                            results |-> call.results, action |-> <<>>]
        ELSE call.outcome = "resolved"

\* a look at threshold 0.80 was rejected on a best match of 0.79
C5_Witness ==
    /\ call.op = "look"
    /\ call.threshold = 80
    /\ call.results # <<>>
    /\ call.results[1].score = 79
    /\ call.outcome = "rejected"

\* the search returned no candidate (for act: none that carries a ref)
NoCandidate ==
    \/ call.op = "look" /\ call.results = <<>>
    \/ call.op = "act" /\ Actionable(call.results) = <<>>

\* C6: with no candidate, look and act end in a failure that carries the
\* query and the threshold, and no action is dispatched.
C6_NoCandidateFails ==
    NoCandidate =>
        /\ call.outcome \in {"rejected", "thrown"}
        /\ call.err.query = call.query
        /\ call.err.threshold = call.threshold
        /\ call.action = ""

\* the record the invocation settled on, once the gate let it through
HasWinner ==
    /\ call.op \in {"look", "wait", "act"}
    /\ ~NoCandidate
    /\ call.err.msg # "not found"

WinnerRef ==
    Props((IF call.op = "act" THEN Actionable(call.results)
           ELSE call.results)[1].memory).ref

\* C7: when the winning record's content carries a ref that is not a key of
\* the current snapshot's reference map, the invocation fails.
C7_DanglingFails ==
    (HasWinner /\ WinnerRef # NoRef /\ WinnerRef \notin DOMAIN snap.elements)
        => call.outcome \in {"rejected", "thrown"}

\* the record act settles on: the best actionable result, once it has passed
\* the gate
ActsOnRecord ==
    /\ call.op = "act"
    /\ Actionable(call.results) # <<>>
    /\ ~scoreBelow(Actionable(call.results)[1].score, call.threshold)

RecordAction == Props(Actionable(call.results)[1].memory).action

----------------------------------------------------------------------------
(* The wait loop: waitElementByDescription under a clock *)

\* durations in ticks of 100 ms
BlinkTicks == 4
DefaultTimeout == 600
DefaultPolling == 10

\* options.timeout || 60000, options.pollingInterval || 1000
EffectiveTimeout(t) == IF t = 0 THEN DefaultTimeout ELSE t
EffectivePolling(p) == IF p = 0 THEN DefaultPolling ELSE p

SetupTicksNoBlink == BlinkTicks - BlinkTicks

\* setup() lasts at least as long as its blink
SetupTicks == BlinkTicks

loopConditionLate(elapsed, timeout) == elapsed <= timeout

\* while (Date.now() - startTime < timeout)
loopCondition(elapsed, timeout) == elapsed < timeout

\* the least time an awaited step takes; it settles within MaxLag of it
Least(pc) ==
    IF pc = "setup" THEN SetupTicks
    ELSE IF pc = "sleep" THEN w.polling
    ELSE 0

InLoop == w.pc \in {"test", "setup", "search", "sleep"}

\* direct call of waitElementByDescription(setup, description, options);
\* nv tells that the store never yields a qualifying result
WaitCall(t, p, th, nv) ==
    /\ w.pc = "idle"
    /\ w' = [NoWait EXCEPT !.pc = "test",
                           !.timeout = EffectiveTimeout(t),
                           !.polling = EffectivePolling(p),
                           !.threshold = EffectiveThreshold(th),
                           !.never = nv,
                           !.asked = th]
    /\ UNCHANGED <<docVars, memVars, diffVars, sideVars, call>>

LoopTest ==
    /\ w.pc = "test"
    /\ w' = [w EXCEPT !.pc = IF loopCondition(w.elapsed, w.timeout)
                             THEN "setup" ELSE "timeout",
                      !.spent = 0]
    /\ UNCHANGED <<docVars, memVars, diffVars, sideVars, call>>

SetupDone ==
    /\ w.pc = "setup"
    /\ w.spent >= Least("setup")
    /\ setup
    /\ w' = [w EXCEPT !.pc = "search", !.spent = 0]
    /\ UNCHANGED call

\* setup() rejects (the page is navigating, the evaluation fails): caught
SetupThrows ==
    /\ w.pc = "setup"
    /\ w' = [w EXCEPT !.pc = "test", !.spent = 0, !.faulted = TRUE]
    /\ UNCHANGED <<docVars, memVars, diffVars, sideVars, call>>

Found(r) ==
    [w EXCEPT !.pc = IF Qualifying(r, w.threshold) # <<>>
                     THEN "returned" ELSE "sleep",
              !.spent = 0,
              !.attempts = @ + 1,
              !.results = Qualifying(r, w.threshold),
              !.seen = r]

SearchDone ==
    /\ w.pc = "search"
    /\ \E r \in {x \in SearchResults(store) : Len(x) <= 1} :
          /\ w.never => Qualifying(r, w.threshold) = <<>>
          /\ w' = Found(r)
    /\ UNCHANGED <<docVars, memVars, diffVars, sideVars, call>>

\* memory.search rejects: caught
SearchThrows ==
    /\ w.pc = "search"
    /\ w' = [w EXCEPT !.pc = "test", !.spent = 0, !.faulted = TRUE,
                      !.attempts = @ + 1]
    /\ UNCHANGED <<docVars, memVars, diffVars, sideVars, call>>

SleepDone ==
    /\ w.pc = "sleep"
    /\ w.spent >= Least("sleep")
    /\ w' = [w EXCEPT !.pc = "test", !.spent = 0]
    /\ UNCHANGED <<docVars, memVars, diffVars, sideVars, call>>

\* 100 ms pass
Tick ==
    /\ InLoop
    /\ w.spent < Least(w.pc) + MaxLag
    /\ w' = [w EXCEPT !.elapsed = @ + 1, !.spent = @ + 1]
    /\ UNCHANGED <<docVars, memVars, diffVars, sideVars, call>>

\* the caller takes the results or the Timeout error
WaitReset ==
    /\ w.pc \in {"returned", "timeout"}
    /\ w' = NoWait
    /\ UNCHANGED <<docVars, memVars, diffVars, sideVars, call>>

\* the options of the calls: timeout, polling interval (in ticks), threshold
WaitOptions ==
    {[timeout |-> 20, polling |-> 5, threshold |-> 0],
     [timeout |-> 10, polling |-> 10, threshold |-> 50]}

InitWait ==
    /\ dom = SyncDom
    /\ FreshPage
    /\ IdleMem
    /\ IdleDiff
    /\ IdleCalls
    /\ IdlePure
    /\ IdleSteps

NextWait ==
    \/ \E o \in WaitOptions, nv \in BOOLEAN :
          WaitCall(o.timeout, o.polling, o.threshold, nv)
    \/ LoopTest
    \/ SetupDone
    \/ SetupThrows
    \/ SearchDone
    \/ SearchThrows
    \/ SleepDone
    \/ Tick
    \/ WaitReset

\* the clock runs and every awaited step settles; a pending setup() or search
\* is exactly a state where its rejection is enabled, so weak fairness of the
\* rejection says that the step settles one way or the other
SpecWait ==
    /\ InitWait
    /\ [][NextWait]_vars
    /\ WF_vars(Tick)
    /\ WF_vars(LoopTest)
    /\ WF_vars(SetupThrows)
    /\ WF_vars(SearchThrows)
    /\ WF_vars(SleepDone)


\* C8: the loop returns only qualifying results and throws Timeout only once
\* the elapsed time has reached the timeout; it starts an iteration only
\* while the elapsed time is below the timeout; an exception of Setup or of
\* the search sends it back to the loop test; and every call terminates.
C8_WaitLoop ==
    /\ [](w.pc = "returned" =>
            /\ w.results # <<>>
            /\ \A i \in DOMAIN w.results : w.results[i].score >= w.threshold)
    /\ [](w.pc = "timeout" => w.elapsed >= w.timeout)
    /\ [][(w.pc = "test" /\ w'.pc = "setup") => w.elapsed < w.timeout]_vars
    /\ [][(w.pc \in {"setup", "search"} /\ w'.faulted /\ ~w.faulted)
             => w'.pc = "test"]_vars
    /\ (w.pc = "test") ~> (w.pc \in {"returned", "timeout"})

\* a call returned qualifying results on a retry that followed an exception
C8_Witness ==
    /\ w.pc = "returned"
    /\ w.faulted
    /\ w.attempts >= 2
    /\ w.results # <<>>

\* timeout 2000 ms, polling interval 500 ms, a store that never qualifies,
\* no exception
Scenario ==
    /\ w.pc = "timeout"
    /\ w.timeout = 20 /\ w.polling = 5
    /\ w.never /\ ~w.faulted

Searched == w.pc \in {"sleep", "returned"}

MeetsAsked(r) == r.score >= w.asked

\* C19: whatever threshold t the caller passes, 0 included, the results
\* that qualify in the polling loop are those scoring at least t, and the
\* loop returns as soon as the top result scores at least t.
C19_CallerThreshold ==
    Searched =>
        /\ w.results = SelectSeq(w.seen, MeetsAsked)
        /\ w.pc = "returned" <=> (w.seen # <<>> /\ MeetsAsked(w.seen[1]))

----------------------------------------------------------------------------
(* Specification: one build of documents of every small shape *)

TreeDom ==
    [x \in ElIds |->
       IF x = RootEl THEN [BlankEl EXCEPT !.role = "document"] ELSE BlankEl]

\* the elements are numbered in the order they enter the document
NextEl == Cardinality(Reachable(dom, RootEl))

\* role and pointer reachability of a new element: a role-less wrapper (a
\* generic node in a build for AI), a button, a button out of the pointer's
\* reach
TreeKinds ==
    {[role |-> "", pointer |-> TRUE], [role |-> "button", pointer |-> TRUE],
     [role |-> "button", pointer |-> FALSE]}

\* a new element, with a text run of its own or without, becomes the last
\* child of p
AddElement(p, kind, withText) ==
    /\ snap = NoSnap
    /\ NextEl <= TreeEls
    /\ NextEl \in ElIds
    /\ Attached(dom, p)
    /\ dom' = [dom EXCEPT
                 ![NextEl] = [BlankEl EXCEPT
                                !.role = kind.role,
                                !.pointer = kind.pointer,
                                !.kids = IF withText
                                         THEN <<TextItem(<<"x">>)>>
                                         ELSE <<>>],
                 ![p].kids = Append(@, ElItem(NextEl))]
    /\ UNCHANGED <<lastRef, cache, rawTree, snap, aiRoot, memVars, diffVars, sideVars,
                   call, w>>

FirstSnapshot ==
    /\ snap = NoSnap
    /\ Snapshot(AIOpt)

InitTree ==
    /\ dom = TreeDom
    /\ FreshPage
    /\ IdleMem
    /\ IdleDiff
    /\ IdleCalls
    /\ IdlePure
    /\ IdleSteps

NextTree ==
    \/ \E p \in ElIds, kind \in TreeKinds, withText \in BOOLEAN :
          AddElement(p, kind, withText)
    \/ FirstSnapshot

SpecTree == InitTree /\ [][NextTree]_vars

\* the elements that have a node in the returned tree
Kept == {n.el : n \in Inner(snap.root)}

RawNode(e) == CHOOSE n \in Inner(rawTree) : n.el = e

\* a child by what it stands for: its element, or its text
Ident(c) == IF IsText(c) THEN c ELSE [t |-> "node", el |-> c.el]

\* below a node of the tree before the collapse: the kept nodes and the text
\* runs that no kept node separates from it, in document order
RECURSIVE Tops(_)
Tops(children) ==
    IF children = <<>> THEN <<>>
    ELSE (IF IsText(Head(children)) \/ Head(children).el \in Kept
          THEN <<Head(children)>>
          ELSE Tops(Head(children).children))
         \o Tops(Tail(children))

Idents(list) == [i \in DOMAIN list |-> Ident(list[i])]

OneReachableNode(list) ==
    Len(list) = 1 /\ IsNode(list[1]) /\ receivesPointerEvents(list[1])

\* C10: in the returned tree a generic node whose child list is exactly one
\* pointer-reachable node is absent and non-generic nodes are never removed;
\* a generic node left with two or more children, with a single text run or
\* with a single node out of the pointer's reach is kept; and the children of
\* every kept node are, in order, what stood below it before the collapse, so
\* the child of a removed wrapper stands where the wrapper stood.
C10_GenericCollapse ==
    snap.root # NoNode =>
      /\ \A g \in Inner(rawTree) :
           /\ (g.role = "generic" /\ OneReachableNode(Tops(g.children)))
                 => g.el \notin Kept
           /\ (g.role # "generic"
               \/ Len(Tops(g.children)) >= 2
               \/ (Len(Tops(g.children)) = 1
                   /\ ~OneReachableNode(Tops(g.children))))
                 => g.el \in Kept
      /\ Idents(snap.root.children) = Idents(Tops(rawTree.children))
      /\ \A n \in Inner(snap.root) :
           Idents(n.children) = Idents(Tops(RawNode(n.el).children))

\* wrapper 1 around button 2 is gone and 2 stands before its sibling 3
C10_Witness ==
    /\ snap.root # NoNode
    /\ {1, 2, 3} \subseteq {n.el : n \in Inner(rawTree)}
    /\ RawNode(1).role = "generic"
    /\ 1 \notin Kept
    /\ {2, 3} \subseteq Kept
    /\ Idents(RawNode(RootEl).children)
         = <<[t |-> "node", el |-> 1], [t |-> "node", el |-> 3]>>
    /\ Idents(NodeFor(snap.root, RootEl).children)
         = <<[t |-> "node", el |-> 2], [t |-> "node", el |-> 3]>>

----------------------------------------------------------------------------
(* Template matcher *)

\* the state fields a role template may constrain
StateFields ==
    {"checked", "disabled", "expanded", "level", "pressed", "selected"}

\* template.text, template.name, template.props.url: absent, a string, or a
\* pattern
NoText == [kind |-> "none", s |-> <<>>]
Exactly(s) == [kind |-> "string", s |-> s]
Pattern(s) == [kind |-> "regex", s |-> s]

\* text.match(new RegExp(pattern)) for a pattern without metacharacters: the
\* pattern occurs in the text
Occurs(pat, text) ==
    \E i \in 0..(Len(text) - Len(pat)) :
       SubSeq(text, i + 1, i + Len(pat)) = pat

matchesText(text, tt) ==
    IF tt.kind = "none" \/ (tt.kind = "string" /\ tt.s = <<>>) THEN TRUE
    ELSE IF text = <<>> THEN FALSE
    ELSE IF tt.kind = "string" THEN text = tt.s
    ELSE Occurs(tt.s, text)

\* matchesNode: the checks of the node's own role, states, name and url
OwnFieldsMatch(node, tp) ==
    /\ (tp.role = "fragment" \/ tp.role = node.role)
    /\ \A f \in StateFields : tp[f] = "undef" \/ tp[f] = node[f]
    /\ matchesText(node.name, tp.name)
    /\ matchesText(node.propsUrl, tp.url)

RECURSIVE matchesNode(_, _, _)
RECURSIVE Consume(_, _)

\* listEqual that does not hand the deep-equal flag down
listEqualShallow(children, tl, isDeepEqual) ==
    /\ Len(tl) = Len(children)
    /\ \A i \in 1..Len(tl) : matchesNode(children[i], tl[i], FALSE)

listEqual(children, tl, isDeepEqual) ==
    /\ Len(tl) = Len(children)
    /\ \A i \in 1..Len(tl) : matchesNode(children[i], tl[i], isDeepEqual)

\* containsList with every template searching the whole child list
containsListAnyOrder(children, tl) ==
    /\ Len(tl) <= Len(children)
    /\ \A j \in 1..Len(tl) :
          \E i \in 1..Len(children) : matchesNode(children[i], tl[j], FALSE)

\* the loop of containsList: each template shifts children off the front
\* until one matches; an exhausted list or an empty text run ends it
Consume(cc, tt) ==
    IF tt = <<>> THEN TRUE
    ELSE IF cc = <<>> THEN FALSE
    ELSE IF IsText(Head(cc)) /\ Head(cc).s = <<>> THEN FALSE
    ELSE IF matchesNode(Head(cc), Head(tt), FALSE)
         THEN Consume(Tail(cc), Tail(tt))
         ELSE Consume(Tail(cc), tt)

containsList(children, tl) ==
    IF Len(tl) > Len(children) THEN FALSE ELSE Consume(children, tl)

matchesNode(node, tp, isDeepEqual) ==
    IF IsText(node) /\ tp.kind = "text" THEN matchesText(node.s, tp.text)
    ELSE IF ~IsNode(node) \/ tp.kind # "role" THEN FALSE
    ELSE IF ~OwnFieldsMatch(node, tp) THEN FALSE
    ELSE IF tp.containerMode = "contain"
         THEN containsList(node.children, tp.children)
    ELSE IF tp.containerMode = "equal"
         THEN listEqual(node.children, tp.children, FALSE)
    ELSE IF tp.containerMode = "deep-equal" \/ isDeepEqual
         THEN listEqual(node.children, tp.children, TRUE)
    ELSE containsList(node.children, tp.children)

\* matchesNodeDeep: the pair of the results so far and visit's return value
Hits(results, stop) == [results |-> results, stop |-> stop]

\* results.push(typeof node === "string" ? parent : node)
PushResult(results, node, parent) ==
    IF IsText(node)
    THEN (IF parent = NoNode THEN results ELSE Append(results, parent))
    ELSE Append(results, node)

RECURSIVE DeepVisit(_, _, _, _, _, _)
RECURSIVE DeepChildren(_, _, _, _, _, _)

DeepRest(rest, parent, tp, collectAll, isDeepEqual, h) ==
    IF h.stop THEN h
    ELSE DeepChildren(rest, parent, tp, collectAll, isDeepEqual, h)

DeepChildren(children, parent, tp, collectAll, isDeepEqual, h) ==
    IF children = <<>> THEN Hits(h.results, FALSE)
    ELSE DeepRest(Tail(children), parent, tp, collectAll, isDeepEqual,
                  DeepVisit(Head(children), parent, tp, collectAll,
                            isDeepEqual, h))

DeepVisit(node, parent, tp, collectAll, isDeepEqual, h) ==
    IF matchesNode(node, tp, isDeepEqual)
    THEN Hits(PushResult(h.results, node, parent), ~collectAll)
    ELSE IF IsText(node) THEN Hits(h.results, FALSE)
    ELSE DeepChildren(node.children, node, tp, collectAll, isDeepEqual, h)

matchesNodeDeep(root, tp, collectAll, isDeepEqual) ==
    DeepVisit(root, NoNode, tp, collectAll, isDeepEqual,
              Hits(<<>>, FALSE)).results

\* Inputs of the matcher: trees as generateAriaTree returns them (no empty
\* and no adjacent text runs) and templates as the caller writes them
MaxKids == 2

MatchNode(role, name, children) ==
    [t |-> "node", role |-> role, name |-> name, children |-> children,
     checked |-> "undef", disabled |-> "undef", expanded |-> "undef",
     level |-> "undef", pressed |-> "undef", selected |-> "undef",
     propsUrl |-> <<>>]

ButtonA == MatchNode("button", <<"a">>, <<>>)
ButtonB == [MatchNode("button", <<"b">>, <<>>) EXCEPT !.disabled = "true"]
LinkA == [MatchNode("link", <<"a">>, <<>>) EXCEPT !.propsUrl = <<"u", "v">>]

MatchKids ==
    {ButtonA, ButtonB, LinkA, TextChild(<<"x">>),
     MatchNode("list", <<>>, <<ButtonA, ButtonB>>),
     MatchNode("list", <<>>, <<MatchNode("list", <<>>, <<ButtonA>>)>>)}

ListsUpTo(S, n) == UNION {[1..k -> S] : k \in 0..n}

NoAdjacentText(list) ==
    \A i \in 1..(Len(list) - 1) : ~(IsText(list[i]) /\ IsText(list[i + 1]))

MatchTrees ==
    {MatchNode("fragment", <<>>, kids) :
       kids \in {l \in ListsUpTo(MatchKids, MaxKids) : NoAdjacentText(l)}}

TextTemplate(tt) == [kind |-> "text", text |-> tt]

RoleTemplate(role, name, mode, children) ==
    [kind |-> "role", role |-> role, name |-> name, url |-> NoText,
     checked |-> "undef", disabled |-> "undef", expanded |-> "undef",
     level |-> "undef", pressed |-> "undef", selected |-> "undef",
     containerMode |-> mode, children |-> children]

AnyButton == RoleTemplate("button", NoText, "none", <<>>)

ContainerModes == {"none", "contain", "equal", "deep-equal"}

TemplateKids ==
    {AnyButton,
     RoleTemplate("button", Exactly(<<"a">>), "none", <<>>),
     [AnyButton EXCEPT !.disabled = "true"],
     [RoleTemplate("link", NoText, "none", <<>>)
        EXCEPT !.url = Pattern(<<"v">>)],
     TextTemplate(Exactly(<<"x">>)),
     RoleTemplate("list", NoText, "contain", <<AnyButton>>),
     RoleTemplate("list", NoText, "none", <<AnyButton>>)}

TemplateLists ==
    {<<>>} \cup {<<a>> : a \in TemplateKids}
           \cup {<<a, b>> : a \in TemplateKids, b \in TemplateKids}

RootTemplates ==
    {TextTemplate(Exactly(<<"x">>))}
      \cup {RoleTemplate(role, NoText, mode, tl) :
              role \in {"fragment", "list"}, mode \in ContainerModes,
              tl \in TemplateLists}

\* matchesAriaTree (first match only) and getAllByAria (every match)
DeepSearch(collectAll) ==
    /\ ~found.run
    /\ found' = [run |-> TRUE, collectAll |-> collectAll,
                 matches |-> matchesNodeDeep(tree, template, collectAll,
                                             FALSE)]
    /\ UNCHANGED <<docVars, memVars, diffVars, call, w, tree, template,
                   prompt, parsed,
                   stepVars>>

matchesAriaTree == DeepSearch(FALSE)
getAllByAria == DeepSearch(TRUE)

InitMatch ==
    /\ dom = TreeDom
    /\ FreshPage
    /\ IdleMem
    /\ IdleDiff
    /\ IdleCalls
    /\ tree \in MatchTrees
    /\ template \in RootTemplates
    /\ found = NoSearch
    /\ prompt = <<>>
    /\ parsed = NotParsed
    /\ IdleSteps

NextMatch ==
    \/ matchesAriaTree
    \/ getAllByAria

SpecMatch == InitMatch /\ [][NextMatch]_vars

\* the deep search reports the root itself as its first match
RootMatched == found.matches # <<>> /\ found.matches[1] = tree

Increasing(f) == \A i, j \in DOMAIN f : i < j => f[i] < f[j]

\* the templates match, in order, a subsequence of the children
SubsequenceMatch(children, tl) ==
    \E f \in [1..Len(tl) -> 1..Len(children)] :
       /\ Increasing(f)
       /\ \A i \in 1..Len(tl) : matchesNode(children[f[i]], tl[i], FALSE)

PairwiseMatch(children, tl) ==
    /\ Len(tl) = Len(children)
    /\ \A i \in 1..Len(tl) : matchesNode(children[i], tl[i], FALSE)

\* what the claim says of a node and a role template whose own fields agree
Aligned(node, tp, matched) ==
    /\ tp.containerMode \in {"contain", "none"}
          => (matched <=> SubsequenceMatch(node.children, tp.children))
    /\ tp.containerMode = "equal"
          => (matched <=> PairwiseMatch(node.children, tp.children))

RoleTemplatesOf(tp) ==
    {t \in {tp} \cup {tp.children[i] : i \in DOMAIN tp.children} :
       t.kind = "role"}

\* C11: in contain mode, and when no mode is given, a role template matches
\* a node iff its child templates match, in order, a not necessarily
\* contiguous subsequence of the node's children; in equal mode iff the two
\* lists have the same length and match pairwise in order.  Stated of the
\* root as the deep search reports it, and of every node of the tree against
\* the template and its child templates.
C11_ChildAlignment ==
    (found.run /\ template.kind = "role") =>
       /\ OwnFieldsMatch(tree, template)
             => Aligned(tree, template, RootMatched)
       /\ \A n \in NodesOf(tree), t \in RoleTemplatesOf(template) :
             OwnFieldsMatch(n, t) => Aligned(n, t, matchesNode(n, t, FALSE))

\* with no mode given, the button template matches past a leading text run
C11_Witness ==
    /\ found.run
    /\ template.kind = "role"
    /\ template.containerMode = "none"
    /\ template.children = <<AnyButton>>
    /\ tree.children = <<TextChild(<<"x">>), ButtonA>>
    /\ RootMatched

RECURSIVE StrictMatch(_, _)
\* equal-length pairwise matching at every level, whatever mode is declared
StrictMatch(node, tp) ==
    IF IsText(node) /\ tp.kind = "text" THEN matchesText(node.s, tp.text)
    ELSE IF ~IsNode(node) \/ tp.kind # "role" THEN FALSE
    ELSE /\ OwnFieldsMatch(node, tp)
         /\ Len(tp.children) = Len(node.children)
         /\ \A i \in 1..Len(tp.children) :
               StrictMatch(node.children[i], tp.children[i])

\* C12: under a deep-equal template every descendant template is matched
\* with strict equal-length pairwise semantics, whatever mode the descendant
\* declares: the root matches iff the whole template matches strictly.
C12_DeepEqualPropagates ==
    (found.run /\ template.kind = "role"
       /\ template.containerMode = "deep-equal")
       => (RootMatched <=> StrictMatch(tree, template))

RECURSIVE DeepEqualMatch(_, _)
\* below a deep-equal template: a template that declares contain or equal is
\* matched by its own mode, as it would be anywhere else; a template that
\* declares no mode, or deep-equal, needs equal-length pairwise matches, and
\* its own child templates are matched the same way
DeepEqualMatch(node, tp) ==
    IF IsText(node) /\ tp.kind = "text" THEN matchesText(node.s, tp.text)
    ELSE IF ~IsNode(node) \/ tp.kind # "role" THEN FALSE
    ELSE IF tp.containerMode \in {"contain", "equal"}
         THEN matchesNode(node, tp, FALSE)
    ELSE /\ OwnFieldsMatch(node, tp)
         /\ Len(tp.children) = Len(node.children)
         /\ \A i \in 1..Len(tp.children) :
               DeepEqualMatch(node.children[i], tp.children[i])

\* C12 (amended): under a deep-equal template the strict equal-length
\* pairwise matching reaches exactly the descendant templates that declare no
\* mode (or deep-equal) along an unbroken chain of such templates; a
\* descendant that declares contain or equal is matched by its own mode.
C12_OwnModeWins ==
    (found.run /\ template.kind = "role"
       /\ template.containerMode = "deep-equal")
       => (RootMatched <=> DeepEqualMatch(tree, template))

\* under deep-equal, a child template declaring contain matches a list with
\* one child more than it names, and the same template without a mode does
\* not
C12_Witness ==
    /\ found.run
    /\ template.kind = "role"
    /\ template.containerMode = "deep-equal"
    /\ tree.children = <<MatchNode("list", <<>>, <<ButtonA, ButtonB>>)>>
    /\ template.children
         = <<RoleTemplate("list", NoText, "contain", <<AnyButton>>)>>
    /\ RootMatched
    /\ ~matchesNode(tree,
                    [template EXCEPT !.children =
                       <<RoleTemplate("list", NoText, "none",
                                      <<AnyButton>>)>>],
                    FALSE)

RECURSIVE AllMatches(_, _, _)
RECURSIVE AllMatchesOf(_, _, _)
\* the result of every matching node of the tree, in depth-first order
AllMatches(node, parent, tp) ==
    (IF matchesNode(node, tp, FALSE) THEN PushResult(<<>>, node, parent)
     ELSE <<>>)
      \o (IF IsText(node) THEN <<>>
          ELSE AllMatchesOf(node.children, node, tp))

AllMatchesOf(children, parent, tp) ==
    IF children = <<>> THEN <<>>
    ELSE AllMatches(Head(children), parent, tp)
           \o AllMatchesOf(Tail(children), parent, tp)

FirstOf(list) == IF list = <<>> THEN <<>> ELSE <<Head(list)>>

\* C20: with the collect-all flag the deep search returns every matching
\* node, matching descendants of a matching node included, in depth-first
\* order; without it, only the first of them.
C20_DeepSearchResults ==
    found.run =>
       IF found.collectAll
       THEN found.matches = AllMatches(tree, NoNode, template)
       ELSE found.matches
              = FirstOf(AllMatches(tree, NoNode, template))

----------------------------------------------------------------------------
(* Specification: the snapshot entry points on documents of many kinds *)

\* element 1 holds a text run and button 2; its role, states, name and
\* pointer reachability vary
EntryRoles ==
    {"", "presentation", "none", "button", "checkbox", "link", "textbox"}

EntryKinds ==
    [role : EntryRoles, checked : {"undef", "true"}, disabled : BOOLEAN,
     pointer : BOOLEAN, name : {<<>>, <<"F", "i", "l", "e">>}]

EntryDom(kind) ==
    [x \in ElIds |->
       IF x = RootEl
       THEN [BlankEl EXCEPT !.role = "document", !.kids = <<ElItem(1)>>]
       ELSE IF x = 1
       THEN [BlankEl EXCEPT !.role = kind.role, !.checked = kind.checked,
                            !.disabled = kind.disabled,
                            !.pointer = kind.pointer, !.name = kind.name,
                            !.kids = <<TextItem(<<"x">>), ElItem(2)>>]
       ELSE IF x = 2
       THEN [BlankEl EXCEPT !.role = "button", !.name = <<"b">>]
       ELSE BlankEl]

\* node.nodeType of the root handed to the entry point
NodeTypes == {"element", "text", "document"}
EntryPoints == {"ariaSnapshot", "ariaSnapshotJSON"}

\* the call as the caller sees it: the entry point, the root's node type and
\* whether it returned or threw
EntryDone(op, nodeType, how) ==
    [op |-> op, root |-> nodeType, outcome |-> how]

\* an entry point whose root check comes after the build
EntryCallChecksLast(op, nodeType, opt) ==
    /\ KeepSnapshotBy(op, opt, generateAriaTree(dom, opt, lastRef, cache))
    /\ call' = EntryDone(op, nodeType,
                         IF nodeType # "element" THEN "thrown"
                         ELSE "returned")
    /\ UNCHANGED <<dom, memVars, diffVars, sideVars, w>>

\* ariaSnapshot / ariaSnapshotJSON: the root check, then the build, the
\* stored snapshot and the lookup functions
EntryCall(op, nodeType, opt) ==
    /\ IF nodeType # "element"
       THEN /\ call' = EntryDone(op, nodeType, "thrown")
            /\ UNCHANGED <<lastRef, cache, rawTree, snap, aiRoot>>
       ELSE /\ KeepSnapshotBy(op, opt,
                              generateAriaTree(dom, opt, lastRef, cache))
            /\ call' = EntryDone(op, nodeType, "returned")
    /\ UNCHANGED <<dom, memVars, diffVars, sideVars, w>>

InitEntry ==
    /\ dom \in {EntryDom(kind) : kind \in EntryKinds}
    /\ FreshPage
    /\ IdleMem
    /\ IdleDiff
    /\ IdleCalls
    /\ IdlePure
    /\ IdleSteps

NextEntry ==
    \E op \in EntryPoints, nodeType \in NodeTypes, forAI \in BOOLEAN :
       EntryCall(op, nodeType, [forAI |-> forAI, refPrefix |-> <<>>])

SpecEntry == InitEntry /\ [][NextEntry]_vars

SnapOpt == [forAI |-> snap.forAI, refPrefix |-> <<>>]

\* the supportedActions the object graph carries for node n
SupportedOf(n) == JsonNode(n, SnapOpt, <<>>, <<>>).supportedActions

NoDuplicates(s) == \A i, j \in DOMAIN s : s[i] = s[j] => i = j
Before(s, a, b) == \A i, j \in DOMAIN s : (s[i] = a /\ s[j] = b) => i < j

\* click, then hover, then what the role adds, then file_upload, then drag
InsertionOrder(s) ==
    /\ Before(s, "click", "hover")
    /\ \A a \in SeqToSet(s) \ {"click", "hover"} : Before(s, "hover", a)
    /\ \A a \in SeqToSet(s) \ {"file_upload", "drag"} :
          Before(s, a, "file_upload")
    /\ \A a \in SeqToSet(s) \ {"drag"} : Before(s, a, "drag")

\* C13: a node out of the pointer's reach or without a ref gets no supported
\* actions; a reachable, ref-bearing node that is disabled gets exactly
\* [hover]; any other gets hover and drag, click when it is clickable
\* (a checkbox with a checked state: click, hover, drag), without
\* repetitions and in the order of first insertion.
C13_SupportedActions ==
    snap.root # NoNode =>
      \A n \in Inner(snap.root) :
         IF ~n.pointer \/ n.ref = NoRef THEN SupportedOf(n) = <<>>
         ELSE IF n.disabled = "true" THEN SupportedOf(n) = <<"hover">>
         ELSE /\ {"hover", "drag"} \subseteq SeqToSet(SupportedOf(n))
              /\ n.clickable = "true" => "click" \in SeqToSet(SupportedOf(n))
              /\ (n.role = "checkbox" /\ n.checked # "undef")
                    => SupportedOf(n) = <<"click", "hover", "drag">>
              /\ NoDuplicates(SupportedOf(n))
              /\ InsertionOrder(SupportedOf(n))

\* a checked checkbox within reach: click, hover, drag
C13_Witness ==
    /\ snap.root # NoNode
    /\ snap.forAI
    /\ \E n \in Inner(snap.root) :
          /\ n.role = "checkbox"
          /\ n.checked = "true"
          /\ n.disabled # "true"
          /\ n.pointer
          /\ SupportedOf(n) = <<"click", "hover", "drag">>

RECURSIVE JsonNodes(_)
\* every object of a rendered list, nested ones included
JsonNodes(list) ==
    UNION {IF list[i].t = "jnode"
           THEN {list[i]} \cup JsonNodes(list[i].children)
           ELSE {} : i \in DOMAIN list}

\* C14: no node of the returned tree has role presentation or none, and the
\* children of such an element stand under the nearest materialized
\* ancestor; the root is the fragment and has no ref, every ref of the
\* reference map and of the rendered object graph is the ref of a node below
\* the root, and the object graph has no object for the root.
C14_TreeInvariants ==
    snap.root # NoNode =>
      /\ \A n \in NodesOf(snap.root) : n.role \notin {"presentation", "none"}
      /\ dom[1].role \in {"presentation", "none"}
            => Idents(NodeFor(snap.root, RootEl).children)
                 = <<TextChild(<<"x">>), [t |-> "node", el |-> 2]>>
      /\ snap.root.role = "fragment"
      /\ snap.root.ref = NoRef
      /\ \A r \in DOMAIN snap.elements :
            /\ r # NoRef
            /\ \E n \in Inner(rawTree) :
                  n.ref = r /\ n.el = snap.elements[r]
      /\ \A j \in JsonNodes(renderAriaTreeAsJSON(snap.root, SnapOpt)) :
            /\ j.role # "fragment"
            /\ j.ref # NoRef => \E n \in Inner(snap.root) : n.ref = j.ref

\* element 1 has role presentation: it has no node, and its text and button
\* 2 stand under the document node, which carries a ref
C14_Witness ==
    /\ snap.root # NoNode
    /\ snap.forAI
    /\ dom[1].role = "presentation"
    /\ ~HasNode(snap.root, 1)
    /\ HasNode(snap.root, 2)
    /\ NodeFor(snap.root, RootEl).ref \in DOMAIN snap.elements

\* C16: an entry point called with a root that is not an element throws and
\* leaves the stored snapshot, with the lookup functions it installed, the
\* reference counter and the cached references as they were.
C16_InvalidRoot ==
    [][call'.op \in EntryPoints /\ call'.root # "element"
         => /\ call'.outcome = "thrown"
            /\ snap' = snap
            /\ lastRef' = lastRef
            /\ cache' = cache]_vars

\* a call on a text node threw after a snapshot with references was stored
C16_Witness ==
    /\ call.op \in EntryPoints
    /\ call.root = "text"
    /\ call.outcome = "thrown"
    /\ snap.root # NoNode
    /\ lastRef > 0

----------------------------------------------------------------------------
(* Specification: parsePrompt on stored contents of every small shape *)

\* JSON.stringify of an attribute object, the keys in insertion order
KeyOrder == <<"ref", "action", "type", "clickable", "disabled">>

RECURSIVE Members(_, _, _)
Members(obj, i, first) ==
    IF i > Len(KeyOrder) THEN <<>>
    ELSE IF KeyOrder[i] \notin DOMAIN obj THEN Members(obj, i + 1, first)
    ELSE (IF first THEN <<>> ELSE <<",">>)
         \o <<KeyToken(KeyOrder[i])>>
         \o (IF obj[KeyOrder[i]].str THEN JsonString(obj[KeyOrder[i]].v)
             ELSE obj[KeyOrder[i]].v)
         \o Members(obj, i + 1, FALSE)

Stringify(obj) == <<"{">> \o Members(obj, 1, TRUE) \o <<"}">>

\* an object with the keys that are given a value
With(obj, key, values) ==
    {obj} \cup {MapSet(obj, key, v) : v \in values}

AttributeObjects ==
    UNION {With(o, "clickable", {LiteralValue("true"), LiteralValue("false")})
             : o \in UNION {With(r, "action", {StringValue(<<"click">>),
                                               StringValue(<<"scroll">>)})
                              : r \in With(<<>>, "ref",
                                           {StringValue(<<"e", "1">>),
                                            StringValue(<<"e", "\"">>)})}}

PromptHeads == {<<>>, <<"A button labeled ", "\"", "Search", "\"">>}

WithAttributes(head, mark, json) == head \o <<mark>> \o json

ValidPrompts ==
    {WithAttributes(head, mark, Stringify(obj)) :
       head \in PromptHeads, mark \in AttributeMarks,
       obj \in AttributeObjects}

\* the closing brace is missing, or the braces hold no JSON
InvalidPrompts ==
    {WithAttributes(head, mark, SubSeq(Stringify(obj), 1,
                                       Len(Stringify(obj)) - 1)) :
       head \in PromptHeads, mark \in AttributeMarks,
       obj \in AttributeObjects}
      \cup {WithAttributes(head, mark, <<"{", "invalid json", "}">>) :
              head \in PromptHeads, mark \in AttributeMarks}

ParsePrompt ==
    /\ ~parsed.called
    /\ parsed' = [called |-> TRUE, threw |-> tryParse(prompt).threw,
                  attrs |-> tryParse(prompt).attrs]
    /\ UNCHANGED <<docVars, memVars, diffVars, call, w, tree, template,
                   found, prompt,
                   stepVars>>

InitParse ==
    /\ dom = TreeDom
    /\ FreshPage
    /\ IdleMem
    /\ IdleDiff
    /\ IdleCalls
    /\ tree = NoNode
    /\ template = NoNode
    /\ found = NoSearch
    /\ prompt \in ValidPrompts \cup InvalidPrompts \cup PromptHeads
    /\ parsed = NotParsed
    /\ IdleSteps

NextParse == ParsePrompt

SpecParse == InitParse /\ [][NextParse]_vars

\* C17: parsePrompt never throws; on a text with an "Attributes: {json}"
\* segment holding valid JSON it returns exactly the object the JSON
\* denotes; without the segment, or with invalid JSON, the empty object.
C17_ParsePromptTotal ==
    parsed.called =>
      /\ ~parsed.threw
      /\ \A head \in PromptHeads, mark \in AttributeMarks,
            obj \in AttributeObjects :
            prompt = WithAttributes(head, mark, Stringify(obj))
               => parsed.attrs = obj
      /\ prompt \in InvalidPrompts \cup PromptHeads => parsed.attrs = <<>>

\* the first test of dom.test.ts, with a quote inside the reference
C17_Witness ==
    /\ parsed.called
    /\ prompt = <<"A button labeled ", "\"", "Search", "\"", " Attributes: ",
                  "{", "\"ref\":", "\"", "e", "\\\"", "\"", ",",
                  "\"action\":", "\"", "click", "\"", "}">>
    /\ parsed.attrs = [ref |-> StringValue(<<"e", "\"">>),
                       action |-> StringValue(<<"click">>)]

----------------------------------------------------------------------------
(* Specification: builds of documents whose text runs surround an element *)

\* element 1 holds a text run, element 2 and another text run; its role,
\* its name, the runs, and the role and the text of element 2 vary
TextRuns == {<<>>, <<"x">>, <<" ">>, <<"x", " ", " ", "y">>}

TextKinds ==
    [role : {"", "button"}, name : {<<>>, <<"x">>}, before : TextRuns,
     after : TextRuns, inner : {"", "button"}, innerText : {<<>>, <<"y">>},
     block : BOOLEAN]

RunItems(s) == IF s = <<>> THEN <<>> ELSE <<TextItem(s)>>

TextDom(kind) ==
    [x \in ElIds |->
       IF x = RootEl
       THEN [BlankEl EXCEPT !.role = "document", !.kids = <<ElItem(1)>>]
       ELSE IF x = 1
       THEN [BlankEl EXCEPT !.role = kind.role, !.name = kind.name,
                            !.kids = RunItems(kind.before) \o <<ElItem(2)>>
                                       \o RunItems(kind.after)]
       ELSE IF x = 2
       THEN [BlankEl EXCEPT !.role = kind.inner, !.block = kind.block,
                            !.kids = RunItems(kind.innerText)]
       ELSE BlankEl]

InitText ==
    /\ dom \in {TextDom(kind) : kind \in TextKinds}
    /\ FreshPage
    /\ IdleMem
    /\ IdleDiff
    /\ IdleCalls
    /\ IdlePure
    /\ IdleSteps

NextText ==
    \E forAI \in BOOLEAN : Snapshot([forAI |-> forAI, refPrefix |-> <<>>])

SpecText == InitText /\ [][NextText]_vars

AdjacentText(n) ==
    \E i \in 1..(Len(n.children) - 1) :
       IsText(n.children[i]) /\ IsText(n.children[i + 1])

NormalizedText(n) ==
    \A i \in DOMAIN n.children :
       IsText(n.children[i])
          => /\ n.children[i].s # <<>>
             /\ NormalizeWhiteSpace(n.children[i].s) = n.children[i].s

RepeatsName(n) ==
    Len(n.children) = 1 /\ IsText(n.children[1]) /\ n.children[1].s = n.name

\* C21: in the tree a build returns no node has two adjacent text children,
\* every text child is non-empty and whitespace-normalized, and no node has
\* as its only child a text run equal to its name.
C21_TextCoalescing ==
    snap.root # NoNode =>
      \A n \in NodesOf(snap.root) :
         ~AdjacentText(n) /\ NormalizedText(n) /\ ~RepeatsName(n)

\* the same of the tree between the two normalization passes
C21_AfterStringPass ==
    rawTree # NoNode =>
      \A n \in NodesOf(rawTree) :
         ~AdjacentText(n) /\ NormalizedText(n) /\ ~RepeatsName(n)

----------------------------------------------------------------------------
(* Specification: builds of documents with aria-owns *)

\* the ids an aria-owns attribute names: the root, the element itself,
\* siblings, descendants, one or two of them
OwnsLists == {<<>>, <<0>>, <<1>>, <<2>>, <<3>>, <<3, 2>>, <<2, 3>>}

\* buttons 1 and 2 under the document; 1 holds a text run and button 3
OwnsDom(o1, o2, o3) ==
    [x \in ElIds |->
       IF x = RootEl
       THEN [BlankEl EXCEPT !.role = "document",
                            !.kids = <<ElItem(1), ElItem(2)>>]
       ELSE IF x = 1
       THEN [BlankEl EXCEPT !.role = "button", !.owns = o1,
                            !.kids = <<TextItem(<<"a">>), ElItem(3)>>]
       ELSE IF x = 2
       THEN [BlankEl EXCEPT !.role = "button", !.owns = o2]
       ELSE IF x = 3
       THEN [BlankEl EXCEPT !.role = "button", !.owns = o3]
       ELSE BlankEl]

InitOwns ==
    /\ dom \in {OwnsDom(o1, o2, o3) :
                  o1 \in OwnsLists, o2 \in OwnsLists, o3 \in OwnsLists}
    /\ FreshPage
    /\ IdleMem
    /\ IdleDiff
    /\ IdleCalls
    /\ IdlePure
    /\ IdleSteps

NextOwns ==
    \E forAI \in BOOLEAN : Snapshot([forAI |-> forAI, refPrefix |-> <<>>])

SpecOwns == InitOwns /\ [][NextOwns]_vars

\* the elements an element hands to visit, in order: its natural children,
\* then the ones it owns
Candidates(d, e) ==
    LET isEl(it) == it.k = "el"
        items == SelectSeq(d[e].kids \o OwnedItems(d, e), isEl)
    IN [i \in DOMAIN items |-> items[i].id]

Pending(p, ids) == [i \in DOMAIN ids |-> [by |-> p, id |-> ids[i]]]

RECURSIVE Walk(_, _, _, _)
\* depth-first walk with an explicit stack: who reaches each element first
Walk(d, stack, seen, first) ==
    IF stack = <<>> THEN first
    ELSE IF Head(stack).id \in seen THEN Walk(d, Tail(stack), seen, first)
    ELSE Walk(d,
              (IF d[Head(stack).id].visible
               THEN Pending(Head(stack).id, Candidates(d, Head(stack).id))
               ELSE <<>>) \o Tail(stack),
              seen \cup {Head(stack).id},
              MapSet(first, Head(stack).id, Head(stack).by))

FirstVisitor(d) == Walk(d, Pending(RootEl, Candidates(d, RootEl)),
                        {RootEl}, <<>>)

RECURSIVE Copies(_, _)
\* the number of nodes for element e among children and below them
Copies(children, e) ==
    IF children = <<>> THEN 0
    ELSE (IF IsText(Head(children)) THEN 0
          ELSE (IF Head(children).el = e THEN 1 ELSE 0)
               + Copies(Head(children).children, e))
         + Copies(Tail(children), e)

\* the elements of the node children of n, in order
ChildEls(n) ==
    LET nodes == SelectSeq(n.children, IsNode)
    IN [i \in DOMAIN nodes |-> nodes[i].el]

\* what n's element handed to visit and reached first, in order
FirstReached(d, e) ==
    LET mine(c) == c \in DOMAIN FirstVisitor(d) /\ FirstVisitor(d)[c] = e
    IN Dedupe(SelectSeq(Candidates(d, e), mine))

\* C22: a build of a document with aria-owns (naming an ancestor, the
\* element itself, an element with several owners) ends, every element has
\* at most one node in the tree, and the node stands under the element that
\* reached it first in depth-first order, the owned elements after the
\* natural children.
C22_VisitOnce ==
    snap.root # NoNode =>
      /\ \A e \in ElIds \ {RootEl} :
            /\ Copies(rawTree.children, e) <= 1
            /\ Copies(snap.root.children, e) <= 1
            /\ e \in DOMAIN FirstVisitor(dom) <=> HasNode(rawTree, e)
      /\ Copies(rawTree.children, RootEl) = 1
      /\ \A n \in Inner(rawTree) : ChildEls(n) = FirstReached(dom, n.el)

\* button 1 owns its later sibling 2 and its own child 3, 2 owns 3 too and
\* 3 owns the root: 2 stands under 1, after 3, and not under the document
C22_Witness ==
    /\ snap.root # NoNode
    /\ dom[1].owns = <<2, 3>>
    /\ dom[2].owns = <<3>>
    /\ dom[3].owns = <<0>>
    /\ ChildEls(NodeFor(rawTree, 1)) = <<3, 2>>
    /\ ChildEls(NodeFor(rawTree, RootEl)) = <<1>>
    /\ ChildEls(NodeFor(rawTree, 2)) = <<>>

----------------------------------------------------------------------------
(* The eye's invocations, one awaited step at a time *)

\* setup(): injectA11y, blink, then the two halves of syncA11yMemoryFromTree
SetupSteps == <<"inject", "blink", "rebuild", "sync">>

\* a setup that goes from the rebuild straight to the search
StepAfterSkipsSync(r, step) ==
    IF step = "inject" THEN "blink"
    ELSE IF step = "blink" THEN "rebuild"
    ELSE IF r.op = "wait" /\ r.outer THEN "inject" ELSE "search"

\* what follows a step of setup(); wait() runs one setup of its own before
\* the loop of waitElementByDescription runs its first
StepAfter(r, step) ==
    IF step = "inject" THEN "blink"
    ELSE IF step = "blink" THEN "rebuild"
    ELSE IF step = "rebuild" THEN "sync"
    ELSE IF r.op = "wait" /\ r.outer THEN "inject" ELSE "search"

Advance(r, step) ==
    [r EXCEPT !.log = Append(@, step), !.pc = StepAfter(r, step),
              !.outer = @ /\ StepAfter(r, step) # "inject"]

Fail(r, how, msg) == [r EXCEPT !.pc = "done", !.outcome = how, !.msg = msg]

\* createEye that leaves the store as it finds it
createEyeKeepsStore ==
    /\ run.op = "none"
    /\ addSent' = 0
    /\ delSent' = 0
    /\ UNCHANGED <<docVars, infer, store, nextId, addFailed, synced, diffVars,
                   sideVars, call, w>>

\* createEye: memory.reset() empties the store the eyes share
createEye ==
    /\ run.op = "none"
    /\ store' = <<>>
    /\ addSent' = 0
    /\ delSent' = 0
    /\ UNCHANGED <<docVars, infer, nextId, addFailed, synced, diffVars,
                   sideVars, call, w>>

\* look, wait or act is called
Begin(op, q, th, params) ==
    /\ run.op = "none"
    /\ run' = [NoRun EXCEPT !.op = op, !.pc = "inject", !.query = q,
                            !.threshold = th, !.params = params,
                            !.outer = (op = "wait")]
    /\ UNCHANGED <<docVars, memVars, diffVars, pureVars, a11y, call, w>>

\* injectA11y that installs the bundle whether the global exists or not
injectA11yAlways ==
    /\ a11y' = TRUE
    /\ lastRef' = 0
    /\ rawTree' = NoNode
    /\ snap' = NoSnap
    /\ aiRoot' = NoNode
    /\ UNCHANGED <<dom, cache>>

\* injectA11y in the page: nothing when window._a11y exists, else the bundle
\* is evaluated and its module state starts afresh (the references cached on
\* the elements are the elements' own)
injectA11y ==
    /\ a11y' = TRUE
    /\ IF a11y THEN UNCHANGED docVars
       ELSE /\ lastRef' = 0
            /\ rawTree' = NoNode
            /\ snap' = NoSnap
            /\ aiRoot' = NoNode
            /\ UNCHANGED <<dom, cache>>

Inject ==
    /\ run.pc = "inject"
    /\ injectA11y
    /\ run' = Advance(run, "inject")
    /\ UNCHANGED <<memVars, diffVars, pureVars, call, w>>

\* the bundle does not define the global: _a11y failed to load
InjectFails ==
    /\ run.pc = "inject"
    /\ ~a11y
    /\ run' = Fail(run, "thrown", "failed to load")
    /\ UNCHANGED <<docVars, memVars, diffVars, pureVars, a11y, call, w>>

Blink ==
    /\ run.pc = "blink"
    /\ run' = Advance(run, "blink")
    /\ UNCHANGED <<docVars, memVars, diffVars, pureVars, a11y, call, w>>

RebuildBuilt(g1, g2) ==
    /\ KeepSnapshot(AIOpt, g2)
    /\ run' = [Advance(run, "rebuild") EXCEPT
                 !.cur = ExtractAll(renderAriaTreeAsJSON(g1.root, AIOpt)),
                 !.builds = @ + 1]

RebuildFrom(g1) ==
    RebuildBuilt(g1, generateAriaTree(dom, AIOpt, g1.lastRef, g1.cache))

\* the evaluation that opens syncA11yMemoryFromTree: both entry points
Rebuild ==
    /\ run.pc = "rebuild"
    /\ RebuildFrom(generateAriaTree(dom, AIOpt, lastRef, cache))
    /\ UNCHANGED <<dom, memVars, diffVars, pureVars, a11y, call, w>>

\* the rest of syncA11yMemoryFromTree: getAll, the diff, add and delete
SyncStore ==
    /\ run.pc = "sync"
    /\ IF infer THEN InferAddFrom(InferContentsMarked(run.cur))
       ELSE Apply(needsToBeAdded(run.cur, GetAll(store)),
                  needsToBeDeleted(run.cur, GetAll(store)))
    /\ addFailed' = FALSE
    /\ run' = Advance(run, "sync")
    /\ UNCHANGED <<docVars, infer, synced, diffVars, pureVars, a11y, call, w>>

\* the records a query can match here: those about clicking and dragging
\* and the inferred ones
StepPool(st) ==
    {i \in DOMAIN st : st[i].memory[1] \in {"click", "drag", "fact", "[ref="}}

StepResults(st) ==
    {<<>>} \cup {<<Hit(st, i, x)>> : i \in StepPool(st), x \in ScoreSet}

\* waitElementByDescription after a search without a qualifying result
PollAgain(r) ==
    IF r.polls + 1 < MaxPolls
    THEN [r EXCEPT !.pc = "inject", !.polls = @ + 1]
    ELSE Fail([r EXCEPT !.polls = @ + 1], "thrown", "Timeout")

\* the search has answered; wait goes on with the qualifying results
AfterSearch(r, results) ==
    IF r.op = "wait" /\ Qualifying(results, r.threshold) = <<>>
    THEN PollAgain(r)
    ELSE [r EXCEPT !.pc = "gate",
                   !.results = IF r.op = "wait"
                               THEN Qualifying(results, r.threshold)
                               ELSE results]

Search ==
    /\ run.pc = "search"
    /\ \E r \in StepResults(store) :
          run' = AfterSearch([run EXCEPT !.log = Append(@, "search"),
                                         !.searchedAt = run.builds], r)
    /\ UNCHANGED <<docVars, memVars, diffVars, pureVars, a11y, call, w>>

Chosen(r, hit) ==
    [r EXCEPT !.pc = "resolve", !.hit = hit, !.ref = Props(hit.memory).ref]

\* the gate of findElementAndAction, over the results that carry a ref
GatedAct(r, a) ==
    IF a = <<>> THEN {Fail(r, "thrown", "TypeError")}
    ELSE IF scoreBelow(a[1].score, r.threshold)
    THEN {Fail(r, "thrown", "not found")}
    ELSE {Chosen(r, a[1])}

\* the gate of look and of wait
Gated(r) ==
    IF r.op = "act" THEN GatedAct(r, Actionable(r.results))
    ELSE IF r.results = <<>>
    THEN {Fail(r, "thrown", "TypeError"), [r EXCEPT !.pc = "resolve"]}
    ELSE IF scoreBelow(r.results[1].score, r.threshold)
    THEN {Fail(r, "rejected", "not found")}
    ELSE {Chosen(r, r.results[1])}

Gate ==
    /\ run.pc = "gate"
    /\ run' \in Gated([run EXCEPT !.log = Append(@, "gate")])
    /\ UNCHANGED <<docVars, memVars, diffVars, pureVars, a11y, call, w>>

\* an act that goes on to the switch with a null handle
AfterResolveUnchecked(r) ==
    IF r.op = "act" THEN [r EXCEPT !.pc = "execute"]
    ELSE [r EXCEPT !.pc = "done", !.outcome = "resolved"]

\* look and wait return the handle; act throws on a null handle
AfterResolve(r) ==
    IF r.op = "act"
    THEN (IF r.handle = Null THEN Fail(r, "thrown", "not accessible")
          ELSE [r EXCEPT !.pc = "execute"])
    ELSE [r EXCEPT !.pc = "done", !.outcome = "resolved"]

\* a11yRefSelect in the page
Resolve ==
    /\ run.pc = "resolve"
    /\ run' = AfterResolve(
                [run EXCEPT !.log = Append(@, "resolve"),
                            !.resolvedAt = run.builds,
                            !.handle = a11yRefSelect(snap.elements, run.ref)])
    /\ UNCHANGED <<docVars, memVars, diffVars, pureVars, a11y, call, w>>

\* an action executor is called
Invoke(r, name) ==
    [r EXCEPT !.pc = "done", !.outcome = "executed",
              !.executed = Append(@, name)]

\* act's switch on the action type
Switch(r, actionType) ==
    IF actionType = <<"drag">>
    THEN (IF r.params THEN [r EXCEPT !.pc = "search2"]
          ELSE Fail(r, "thrown", "requires parameters"))
    ELSE IF actionType \in PlainActions
            \/ (actionType \in ParamActions /\ r.params)
    THEN Invoke(r, actionType[1])
    ELSE IF actionType \in ParamActions
    THEN Fail(r, "thrown", "requires parameters")
    ELSE Fail(r, "thrown", "unknown action")

Execute ==
    /\ run.pc = "execute"
    /\ run' = Switch([run EXCEPT !.log = Append(@, "execute")],
                     IF Props(run.hit.memory).action = <<>> THEN <<"click">>
                     ELSE Props(run.hit.memory).action)
    /\ UNCHANGED <<docVars, memVars, diffVars, pureVars, a11y, call, w>>

\* drag: the search for the drop target
Search2 ==
    /\ run.pc = "search2"
    /\ \E r \in StepResults(store) :
          run' = [run EXCEPT !.pc = "gate2", !.results = r,
                             !.log = Append(@, "search2")]
    /\ UNCHANGED <<docVars, memVars, diffVars, pureVars, a11y, call, w>>

\* JSON.parse(r.memory).ref, or, when the memory is no JSON text, whether it
\* includes "[ref="
IsTarget(r) ==
    /\ r.memory # <<>>
    /\ IF ParseObject(r.memory, 1).ok
       THEN Prop(ParseObject(r.memory, 1).obj, "ref") # <<>>
       ELSE "[ref=" \in SeqToSet(r.memory)

DragTargets(results) == SelectSeq(results, IsTarget)

\* JSON.parse(memory).ref, or parsePrompt(memory).ref when that throws
TargetRef(memory) ==
    IF ParseObject(memory, 1).ok
    THEN Prop(ParseObject(memory, 1).obj, "ref")
    ELSE Props(memory).ref

TargetGate(r, targets) ==
    IF targets = <<>> THEN Fail(r, "thrown", "no target")
    ELSE IF scoreBelow(targets[1].score, r.threshold)
    THEN Fail(r, "thrown", "target not found")
    ELSE IF TargetRef(targets[1].memory) = NoRef
    THEN Fail(r, "thrown", "no target reference")
    ELSE [r EXCEPT !.pc = "resolve2", !.target = targets[1],
                   !.targetRef = TargetRef(targets[1].memory)]

Gate2 ==
    /\ run.pc = "gate2"
    /\ run' = TargetGate([run EXCEPT !.log = Append(@, "gate2")],
                         DragTargets(run.results))
    /\ UNCHANGED <<docVars, memVars, diffVars, pureVars, a11y, call, w>>

\* a11yRefSelect for the drop target
Resolve2 ==
    /\ run.pc = "resolve2"
    /\ run' = [run EXCEPT !.pc = "drop", !.log = Append(@, "resolve2"),
                          !.targetHandle =
                              a11yRefSelect(snap.elements, run.targetRef)]
    /\ UNCHANGED <<docVars, memVars, diffVars, pureVars, a11y, call, w>>

Dropped(r) ==
    IF r.targetHandle = Null THEN Fail(r, "thrown", "target not accessible")
    ELSE Invoke(r, "drag")

Drop ==
    /\ run.pc = "drop"
    /\ run' = Dropped([run EXCEPT !.log = Append(@, "drop")])
    /\ UNCHANGED <<docVars, memVars, diffVars, pureVars, a11y, call, w>>

\* the caller has the result or the error
Finish ==
    /\ run.pc = "done"
    /\ run' = NoRun
    /\ UNCHANGED <<docVars, memVars, diffVars, pureVars, a11y, call, w>>

----------------------------------------------------------------------------
(* Specification: invocations step by step on a changing document *)

\* a disabled button 1 and a button 2 that comes and goes
StepsDom ==
    [x \in ElIds |->
       IF x = RootEl
       THEN [BlankEl EXCEPT !.role = "document",
                            !.kids = <<ElItem(1), ElItem(2)>>]
       ELSE IF x = 1
       THEN [BlankEl EXCEPT !.role = "button", !.disabled = TRUE,
                            !.kids = <<TextItem(<<"x">>)>>]
       ELSE [BlankEl EXCEPT !.role = "button",
                            !.kids = <<TextItem(<<"y">>)>>]]

\* a page the bundle has not been injected into
InitSteps ==
    /\ dom = StepsDom
    /\ FreshPage
    /\ infer \in BOOLEAN
    /\ store = <<>>
    /\ nextId = 1
    /\ addSent = 0
    /\ delSent = 0
    /\ addFailed = FALSE
    /\ synced = FALSE
    /\ IdleDiff
    /\ IdleCalls
    /\ IdlePure
    /\ a11y = FALSE
    /\ run = NoRun

NextSteps ==
    \/ Detach(2)
    \/ Attach(2, RootEl)
    \/ \E op \in {"look", "wait"}, th \in Thresholds :
          Begin(op, "X", th, FALSE)
    \/ \E th \in Thresholds, params \in BOOLEAN : Begin("act", "X", th, params)
    \/ Inject
    \/ InjectFails
    \/ Blink
    \/ Rebuild
    \/ SyncStore
    \/ Search
    \/ Gate
    \/ Resolve
    \/ Execute
    \/ Search2
    \/ Gate2
    \/ Resolve2
    \/ Drop
    \/ Finish

SpecSteps == InitSteps /\ [][NextSteps]_vars

----------------------------------------------------------------------------
(* Setup, search, gate, lookup, executor: their order within an invocation *)

\* the four steps of a setup, in order, are what precedes position i
SetupBefore(log, i) == i > 4 /\ SubSeq(log, i - 4, i - 1) = SetupSteps

\* C23: in every look, wait and act the search is issued only after setup
\* has gone through install, settle, rebuild and sync in that order, and the
\* lookup of the ref follows the search and its gate with no rebuild in
\* between, so it reads the snapshot of that same setup.
C23_SetupPrecedesSearch ==
    /\ \A i \in DOMAIN run.log :
          /\ run.log[i] = "search" => SetupBefore(run.log, i)
          /\ run.log[i] = "resolve" =>
                /\ i > 2
                /\ run.log[i - 1] = "gate"
                /\ run.log[i - 2] = "search"
    /\ run.pc \in {"gate", "resolve"} => run.searchedAt = run.builds
    /\ run.resolvedAt # 0 =>
          /\ run.resolvedAt = run.searchedAt
          /\ run.resolvedAt >= 1

\* a wait whose second poll found the element and resolved it, the document
\* having changed meanwhile
C23_Witness ==
    /\ run.op = "wait"
    /\ run.polls = 1
    /\ run.outcome = "resolved"
    /\ run.handle = 2
    /\ run.builds = 3
    /\ run.resolvedAt = 3

\* C24: act calls an action executor at most once, and only when the best
\* actionable candidate met the threshold, a ref was extracted and the ref
\* resolved to a node; a drag in addition only when the drop target came
\* from a second search, met the same threshold and resolved to a node; on
\* every failing path no executor is called.
C24_ExecuteAfterResolve ==
    /\ Len(run.executed) <= 1
    /\ run.executed # <<>> =>
          /\ run.op = "act"
          /\ run.outcome = "executed"
          /\ run.hit # NoHit
          /\ run.hit.score >= run.threshold
          /\ run.ref # NoRef
          /\ run.ref = Props(run.hit.memory).ref
          /\ run.handle # Null
    /\ run.executed = <<"drag">> =>
          /\ \E i \in DOMAIN run.log : run.log[i] = "search2"
          /\ run.target # NoHit
          /\ run.target.score >= run.threshold
          /\ run.targetRef # NoRef
          /\ run.targetHandle # Null
    /\ run.outcome \in {"thrown", "rejected", "resolved"} => run.executed = <<>>

\* a drag that was carried out
C24_Witness ==
    /\ run.executed = <<"drag">>
    /\ run.targetHandle # Null
    /\ run.handle # Null

\* a click that was carried out
C24_Clicked ==
    /\ run.executed = <<"click">>
    /\ run.handle = 2

\* C26: injectA11y installs the tree-builder global only when it is absent;
\* on a page that has it the call changes nothing: the reference counter,
\* the references cached on the elements and the last snapshot are those of
\* before.
C26_InstallIdempotent ==
    [][(run.pc = "inject" /\ run'.pc = "blink")
         => /\ a11y'
            /\ a11y => UNCHANGED <<docVars, memVars, a11y>>]_vars

\* the setup of a later invocation has injected into a page whose builder
\* holds a counter, cached references and a snapshot
C26_Witness ==
    /\ a11y
    /\ run.pc = "blink"
    /\ run.builds = 0
    /\ lastRef > 0
    /\ snap # NoSnap
    /\ \E e \in ElIds : cache[e] # NoCache

----------------------------------------------------------------------------
(* The records of a sync read back *)

\* the objects of the snapshot the last rebuild kept
SnapshotNodes == JsonNodes(renderAriaTreeAsJSON(snap.root, AIOpt))

\* the attribute marks in a content
Marks(content) == {i \in DOMAIN content : content[i] \in AttributeMarks}

----------------------------------------------------------------------------
(* Specification: builds with and without references, under either prefix *)

InitPrefix ==
    /\ dom = FlatDom
    /\ FreshPage
    /\ IdleMem
    /\ IdleDiff
    /\ IdleCalls
    /\ IdlePure
    /\ IdleSteps

NextPrefix ==
    \/ \E e \in {1, RefEls}, n \in RefNames : SetName(e, n)
    \/ \E p \in RefPrefixes : Snapshot([forAI |-> TRUE, refPrefix |-> p])
    \/ \E p \in RefPrefixes : Snapshot([forAI |-> FALSE, refPrefix |-> p])

SpecPrefix == InitPrefix /\ [][NextPrefix]_vars

\* the step is a reference-minting build made with prefix p
BuiltWith(p) ==
    /\ snap'.forAI
    /\ dom' = dom
    /\ Snapshot([forAI |-> TRUE, refPrefix |-> p])

\* the step is a build without reference minting
BuiltPlain ==
    /\ ~snap'.forAI
    /\ dom' = dom
    /\ \E p \in RefPrefixes : Snapshot([forAI |-> FALSE, refPrefix |-> p])

\* the elements whose node in a tree carries a ref
Carriers(root) ==
    {e \in ElIds : root # NoNode /\ HasNode(root, e)
                   /\ NodeFor(root, e).ref # NoRef}

\* the refs of prefix p that the counter produces on its way from a to b
MintedBetween(p, a, b) == {RefString(p, k) : k \in (a + 1)..b}

\* C27: every ref carried by a node of a build made with refPrefix P has the
\* form P, "e", a positive integer of the counter, also for an element that
\* held a ref from an earlier build made with another prefix.
C27_RefFormat ==
    [][\A p \in RefPrefixes :
          BuiltWith(p) =>
             \A e \in Carriers(snap'.root) :
                NodeFor(snap'.root, e).ref \in MintedBetween(p, 0, lastRef')]_vars

\* C27 as it holds: a ref carried by a node of a build made with refPrefix P
\* is either the ref the element's cache held before the build, unchanged,
\* or P, "e" and a value the counter took during this build.
C27_MintedWithPrefix ==
    [][\A p \in RefPrefixes :
          BuiltWith(p) =>
             \A e \in Carriers(snap'.root) :
                \/ /\ cache[e] # NoCache
                   /\ NodeFor(snap'.root, e).ref = cache[e].ref
                   /\ cache'[e] = cache[e]
                \/ NodeFor(snap'.root, e).ref
                      \in MintedBetween(p, lastRef, lastRef')]_vars

\* a build has left element 1 with a ref of one prefix and element 2 with a
\* ref of the other
C27_Witness ==
    /\ snap.root # NoNode
    /\ snap.forAI
    /\ {1, 2} \subseteq Carriers(snap.root)
    /\ NodeFor(snap.root, 1).ref = RefString(<<"f">>, 4)
    /\ NodeFor(snap.root, 2).ref = RefString(<<>>, 3)

\* C28: the counter only increases and each minted ref uses a fresh value of
\* it, so no ref string is ever associated with two elements, neither in one
\* snapshot's map nor across builds; a build without reference minting
\* mints nothing and leaves the counter and every cached ref as they were.
C28_RefUnique ==
    [][/\ lastRef' >= lastRef
       /\ \A e \in ElIds :
             cache'[e] # cache[e] =>
                /\ cache'[e].ref \in UNION {MintedBetween(p, lastRef, lastRef')
                                              : p \in RefPrefixes}
                /\ \A x \in ElIds \ {e} : cache'[x].ref # cache'[e].ref
       /\ \A e \in Carriers(snap'.root) :
             /\ NodeFor(snap'.root, e).ref = cache'[e].ref
             /\ a11yRefSelect(snap'.elements, cache'[e].ref) = e
       /\ \A r \in DOMAIN snap'.elements : cache'[snap'.elements[r]].ref = r
       /\ BuiltPlain =>
             /\ UNCHANGED <<lastRef, cache>>
             /\ Carriers(snap'.root) = {}
             /\ snap'.elements = <<>>]_vars

\* after a build without references the counter stands where three minting
\* builds left it, and the two elements hold refs of different prefixes
C28_Witness ==
    /\ snap.root # NoNode
    /\ ~snap.forAI
    /\ lastRef = 5
    /\ cache[1].ref = RefString(<<"f">>, 5)
    /\ cache[2].ref = RefString(<<>>, 3)

----------------------------------------------------------------------------
(* The reference map and the normalized tree *)

\* every ref carried by a node of the returned tree is a key of the map and
\* maps to the node's element
TreeInMap ==
    \A e \in Carriers(snap.root) :
       a11yRefSelect(snap.elements, NodeFor(snap.root, e).ref) = e

\* every key of the map is the ref of a node of the returned tree
MapInTree ==
    \A r \in DOMAIN snap.elements : \E n \in Inner(snap.root) : n.ref = r

\* C29: in every snapshot returned by a forAI build, each ref carried by a
\* node of the normalized tree is a key of the reference map and maps to
\* that node's element, and each key of the map is the ref of a node of the
\* normalized tree.
C29_MapMatchesTree ==
    (snap.forAI /\ snap.root # NoNode) => (TreeInMap /\ MapInTree)

\* the half of C29 that holds: the nodes of the tree are in the map
C29_TreeInMap ==
    (snap.forAI /\ snap.root # NoNode) => TreeInMap

----------------------------------------------------------------------------
(* The store after a sync *)

\* the role and content pairs of a list of descriptions or records
Pairs(list) == {<<list[i].role, list[i].content>> : i \in DOMAIN list}

\* the descriptions of the latest snapshot: one for each node with a ref and
\* each of its supported actions
LatestDescriptions == ExtractAll(renderAriaTreeAsJSON(snap.root, AIOpt))

\* the store holds the latest snapshot's descriptions, each once
Mirrors(st) ==
    /\ Pairs(GetAll(st)) = Pairs(LatestDescriptions)
    /\ \A i, j \in DOMAIN st : st[i].memory = st[j].memory => i = j

\* Specification: look and wait in the default mode, the eye created anew
\* between invocations
InitMirror ==
    /\ InitSteps
    /\ ~infer

NextMirror ==
    \/ createEye
    \/ Detach(2)
    \/ Attach(2, RootEl)
    \/ \E op \in {"look", "wait"}, th \in Thresholds :
          Begin(op, "X", th, FALSE)
    \/ Inject
    \/ InjectFails
    \/ Blink
    \/ Rebuild
    \/ SyncStore
    \/ Search
    \/ Gate
    \/ Resolve
    \/ Finish

SpecMirror == InitMirror /\ [][NextMirror]_vars

\* C30: in the default mode, over setups that follow one another and whose
\* store calls succeed, toAdd and toDelete of each sync are disjoint, the
\* store holds no two records alike, and after a sync the contents of the
\* store are the descriptions of the latest snapshot; right after createEye
\* the store is empty.
C30_StoreMirrors ==
    [][/\ createEye => store' = <<>>
       /\ (~infer /\ run.pc = "sync") =>
             Pairs(needsToBeAdded(run.cur, GetAll(store)))
                \cap Pairs(needsToBeDeleted(run.cur, GetAll(store))) = {}
       /\ (~infer /\ run.pc = "sync" /\ run'.pc # "sync") => Mirrors(store')
       /\ (run.op # "none" /\ run.pc # "sync") => store' = store]_vars

\* a sync has deleted the four records of the detached button 2 and kept
\* the three of the rest, after an earlier sync had added all seven
C30_Witness ==
    /\ ~infer
    /\ run.pc = "search"
    /\ delSent = 4
    /\ addSent = 0
    /\ Len(store) = 3
    /\ nextId = 8
    /\ Mirrors(store)

====
